---------------------------- MODULE Spec2Model ----------------------------
(***************************************************************************)
(* The egui plot widget (egui/src/widgets/plot/mod.rs): Plot::ui, the      *)
(* per-frame "show" call, with the PlotMemory it persists between frames,  *)
(* and Prepared::hover, the nearest-point query.                           *)
(*                                                                         *)
(* Numbers.  f64/f32 values are modelled on an integer grid: a data value  *)
(* v stands for v / Unit (Unit grid steps are 1.0), a screen coordinate is *)
(* a whole pixel.  Divisions round down to the grid.  +infinity and        *)
(* -infinity are Inf and -Inf; arithmetic leaves them unchanged.           *)
(*                                                                         *)
(* transform.rs, items.rs and legend.rs are not among the source files;    *)
(* Bounds, ScreenTransform, Curve and LegendEntry are modelled from the    *)
(* specification (sections 3, 4.1, 4.2, 4.4).                              *)
(***************************************************************************)
EXTENDS Integers, Sequences, FiniteSets, TLC

VARIABLES
    id_data,    \* ui.memory().id_data: plot id -> PlotMemory
    last,       \* what the most recent Plot::ui call read, computed and drew
    calls,      \* number of Plot::ui calls made so far
    userHidden, \* history: names the user unchecked and has not re-checked
    hiddenRun,  \* history: names in userHidden whose entry was shown in every call since
    hv,         \* the hover query under test (specification SpecHover)
    pa          \* the paint_axis call under test (specification SpecTicks)

vars == <<id_data, last, calls, userHidden, hiddenRun, hv, pa>>

-----------------------------------------------------------------------------
(* Bounds of the model *)

\* Plot::ui calls per behaviour.
MaxCalls == 2

\* Plot::ui calls per behaviour of the legend specification.
MaxLegendCalls == 3

\* Points, over all curves, of a hover query.
MaxHoverPoints == 3

-----------------------------------------------------------------------------
(* Numbers *)

\* The literal 1.0 of Bounds::new_symmetrical(1.0), in grid steps.
Unit == 20

\* margin_fraction = Vec2::splat(0.05) = 1 / MarginDen.
MarginDen == 20

\* interact_radius = 16.0 pixels.
InteractRadius == 16

\* f64::INFINITY.
Inf == 1000000

\* The fixed epsilon that replaces a zero extent.
Epsilon == 1

IsFinite(v) == v # Inf /\ v # -Inf

Min2(a, b) == IF a <= b THEN a ELSE b

Max2(a, b) == IF a >= b THEN a ELSE b

Abs(a) == IF a < 0 THEN -a ELSE a

\* a + d in f64: an infinite a stays infinite.
Add(a, d) == IF IsFinite(a) THEN a + d ELSE a

-----------------------------------------------------------------------------
(* Bounds (transform.rs, modelled from the specification) *)

\* Bounds::NOTHING: the empty state, min = +inf, max = -inf.
NOTHING == [min |-> <<Inf, Inf>>, max |-> <<-Inf, -Inf>>]

new_symmetrical(half_extent) ==
    [min |-> <<-half_extent, -half_extent>>, max |-> <<half_extent, half_extent>>]

\* "both coordinates pairwise satisfy min <= max and all are finite".
is_valid(b) ==
    /\ \A i \in 1..2 : IsFinite(b.min[i]) /\ IsFinite(b.max[i])
    /\ \A i \in 1..2 : b.min[i] <= b.max[i]

width(b) == b.max[1] - b.min[1]

height(b) == b.max[2] - b.min[2]

\* extend_with_x / extend_with_y: no-op if the value is non-finite.
extend_with_axis(b, i, v) ==
    IF ~IsFinite(v) THEN b
    ELSE [min |-> [b.min EXCEPT ![i] = Min2(@, v)],
          max |-> [b.max EXCEPT ![i] = Max2(@, v)]]

extend_with_x(b, x) == extend_with_axis(b, 1, x)

extend_with_y(b, y) == extend_with_axis(b, 2, y)

extend_with(b, value) == extend_with_y(extend_with_x(b, value[1]), value[2])

\* merge: union, no-op if other is invalid.
merge(b, other) ==
    IF ~is_valid(other) THEN b
    ELSE [min |-> [i \in 1..2 |-> Min2(b.min[i], other.min[i])],
          max |-> [i \in 1..2 |-> Max2(b.max[i], other.max[i])]]

\* The pad add_relative_margin puts on each side of one axis: Epsilon for a
\* zero extent, otherwise the fraction 1 / den of the extent.
MarginPad(lo, hi, den) ==
    IF ~IsFinite(lo) \/ ~IsFinite(hi) THEN 0
    ELSE IF hi = lo THEN Epsilon
    ELSE IF hi < lo THEN 0
    ELSE (hi - lo) \div den

add_relative_margin(b, den) ==
    [min |-> [i \in 1..2 |-> Add(b.min[i], -MarginPad(b.min[i], b.max[i], den))],
     max |-> [i \in 1..2 |-> Add(b.max[i], MarginPad(b.min[i], b.max[i], den))]]

\* make_x_symmetrical / make_y_symmetrical: [-r, r] with r = max(|min|, |max|),
\* skipped if the axis bound is invalid.
make_symmetrical(b, i) ==
    IF ~IsFinite(b.min[i]) \/ ~IsFinite(b.max[i]) \/ b.min[i] > b.max[i] THEN b
    ELSE LET r == Max2(Abs(b.min[i]), Abs(b.max[i]))
         IN [min |-> [b.min EXCEPT ![i] = -r], max |-> [b.max EXCEPT ![i] = r]]

make_x_symmetrical(b) == make_symmetrical(b, 1)

make_y_symmetrical(b) == make_symmetrical(b, 2)

range_x(b) == <<b.min[1], b.max[1]>>

translate(b, d) ==
    [min |-> <<Add(b.min[1], d[1]), Add(b.min[2], d[2])>>,
     max |-> <<Add(b.max[1], d[1]), Add(b.max[2], d[2])>>]

\* v lies inside b (both axes).
Contains(b, v) ==
    /\ b.min[1] <= v[1] /\ v[1] <= b.max[1]
    /\ b.min[2] <= v[2] /\ v[2] <= b.max[2]

-----------------------------------------------------------------------------
(* ScreenTransform (transform.rs, modelled from the specification) *)

\* Screen rectangles: [min |-> <<left, top>>, max |-> <<right, bottom>>], pixels.
RectWidth(r) == r.max[1] - r.min[1]

RectHeight(r) == r.max[2] - r.min[2]

\* a / b rounded down to the grid; a zero divisor (an extent the grid rounded
\* to nothing) yields 0.
Div(a, b) == IF b = 0 THEN 0 ELSE a \div b

\* One axis with zero extent becomes a small symmetric range around its value.
NonDegenerate(b) ==
    [min |-> [i \in 1..2 |-> IF b.min[i] = b.max[i] THEN Add(b.min[i], -Epsilon) ELSE b.min[i]],
     max |-> [i \in 1..2 |-> IF b.min[i] = b.max[i] THEN Add(b.max[i], Epsilon) ELSE b.max[i]]]

\* ScreenTransform::new(frame, bounds, x_centered, y_centered).
ScreenTransformNew(frame, bounds, x_centered, y_centered) ==
    [frame |-> frame, bounds |-> NonDegenerate(bounds),
     x_centered |-> x_centered, y_centered |-> y_centered]

\* position_from_value: affine, y axis flipped; a non-finite coordinate maps
\* to a non-finite position.
position_from_value(t, value) ==
    << IF ~IsFinite(value[1]) THEN value[1]
       ELSE t.frame.min[1] + Div((value[1] - t.bounds.min[1]) * RectWidth(t.frame), width(t.bounds)),
       IF ~IsFinite(value[2]) THEN -value[2]
       ELSE t.frame.max[2] - Div((value[2] - t.bounds.min[2]) * RectHeight(t.frame), height(t.bounds)) >>

\* value_from_position: the inverse map.
value_from_position(t, pos) ==
    << t.bounds.min[1] + Div((pos[1] - t.frame.min[1]) * width(t.bounds), RectWidth(t.frame)),
       t.bounds.min[2] + Div((t.frame.max[2] - pos[2]) * height(t.bounds), RectHeight(t.frame)) >>

\* set_aspect(aspect), aspect = num / den data units per pixel, x over y: the
\* axis that is too wide is shrunk about its centre, the other axis is kept.
set_aspect(t, aspect) ==
    LET b  == t.bounds
        fw == RectWidth(t.frame)
        fh == RectHeight(t.frame)
        lhs == width(b) * fh * aspect[2]    \* current aspect, cross-multiplied
        rhs == aspect[1] * height(b) * fw   \* wanted aspect
        w2 == Div(aspect[1] * height(b) * fw, aspect[2] * fh)
        h2 == Div(aspect[2] * width(b) * fh, aspect[1] * fw)
        \* the new ends, about the centre (min + max) / 2 of the axis, rounded
        \* outwards alike on both sides
        x0 == Div(b.min[1] + b.max[1] - w2, 2)
        x1 == -Div(-(b.min[1] + b.max[1] + w2), 2)
        y0 == Div(b.min[2] + b.max[2] - h2, 2)
        y1 == -Div(-(b.min[2] + b.max[2] + h2), 2)
    IN IF lhs > rhs
       THEN [t EXCEPT !.bounds = [min |-> <<x0, b.min[2]>>, max |-> <<x1, b.max[2]>>]]
       ELSE IF lhs < rhs
       THEN [t EXCEPT !.bounds = [min |-> <<b.min[1], y0>>, max |-> <<b.max[1], y1>>]]
       ELSE t

\* translate_bounds(delta_pos): the pixel delta becomes a data delta through
\* dvalue_dpos (negative on y: the axis is flipped) and shifts min and max.
translate_bounds(t, delta_pos) ==
    LET dx == Div(delta_pos[1] * width(t.bounds), RectWidth(t.frame))
        dy == -Div(delta_pos[2] * height(t.bounds), RectHeight(t.frame))
    IN [t EXCEPT !.bounds = translate(t.bounds, <<dx, dy>>)]

\* zoom(zoom_factor, center): the bounds are rescaled about the data point
\* under center, each axis by its own factor <<num, den>>; a factor < 1 zooms in.
zoom(t, zoom_factor, center) ==
    LET c == value_from_position(t, center)
        s(v, i) == c[i] + Div((v - c[i]) * zoom_factor[i][1], zoom_factor[i][2])
    IN [t EXCEPT !.bounds = [min |-> <<s(t.bounds.min[1], 1), s(t.bounds.min[2], 2)>>,
                             max |-> <<s(t.bounds.max[1], 1), s(t.bounds.max[2], 2)>>]]

-----------------------------------------------------------------------------
(* Curve, HLine, VLine (items.rs) and LegendEntry (legend.rs), modelled from
   the specification *)

RECURSIVE ValuesBounds(_)
\* The data-space bounds of a sequence of values.
ValuesBounds(values) ==
    IF values = <<>> THEN NOTHING
    ELSE extend_with(ValuesBounds(SubSeq(values, 1, Len(values) - 1)), values[Len(values)])

\* A curve: name, stroke {color, width}, values, the cached bounds of its own
\* values, and generator (TRUE: the values are produced by generate_points).
CurveNew(name, color, values, generator) ==
    [name |-> name, color |-> color, width |-> 1, values |-> values,
     bounds |-> ValuesBounds(values), generator |-> generator]

no_data(curve) == ~curve.generator /\ curve.values = <<>>

\* generate_points(x_range): a function-based curve gets its values over the
\* given x range (here the function y = x, sampled at both ends).
generate_points(curve, x_range) ==
    IF curve.generator
    THEN [curve EXCEPT !.values = << <<x_range[1], x_range[1]>>, <<x_range[2], x_range[2]>> >>]
    ELSE curve

\* LegendEntry::new(text, color, checked).
LegendEntryNew(text, color, checked) ==
    [text |-> text, color |-> color, checked |-> checked, hovered |-> FALSE]

\* legend_ui.add(entry): a click toggles the checkbox, the pointer over the
\* entry sets hovered.
LegendEntryUi(entry, clicked, hovered) ==
    [entry EXCEPT !.checked = IF clicked THEN ~@ ELSE @, !.hovered = hovered]

-----------------------------------------------------------------------------
(* Plot: the builder (mod.rs, impl Plot) *)

None == <<>>

Some(x) == <<x>>

\* Color32::TRANSPARENT: "no colour chosen", replaced by auto_color.
TRANSPARENT == "transparent"

\* ui.visuals().noninteractive().fg_stroke.color
NeutralColor == "neutral"

\* The colour auto_color derives from the index i (golden-ratio hue steps:
\* a different colour for each index).
AutoColor(i) == <<"auto0", "auto1", "auto2", "auto3", "auto4", "auto5">>[i + 1]

\* Plot::new(name)
PlotNew(name) ==
    [name |-> name, next_auto_color_idx |-> 0,
     curves |-> <<>>, hlines |-> <<>>, vlines |-> <<>>,
     center_x_axis |-> FALSE, center_y_axis |-> FALSE,
     allow_zoom |-> TRUE, allow_drag |-> TRUE,
     min_auto_bounds |-> NOTHING, margin_fraction |-> MarginDen,
     min_size |-> <<64, 64>>, width |-> None, height |-> None,
     data_aspect |-> None, view_aspect |-> None,
     show_x |-> TRUE, show_y |-> TRUE, show_legend |-> TRUE]

\* Plot::auto_color, for an item whose stroke colour is color: the colour it
\* gets and the plot with the index advanced.
auto_color(plot, color) ==
    IF color = TRANSPARENT
    THEN [color |-> AutoColor(plot.next_auto_color_idx),
          plot |-> [plot EXCEPT !.next_auto_color_idx = @ + 1]]
    ELSE [color |-> color, plot |-> plot]

\* Plot::curve
PlotCurve(plot, curve) ==
    IF ~no_data(curve)
    THEN LET a == auto_color(plot, curve.color)
         IN [a.plot EXCEPT !.curves = Append(@, [curve EXCEPT !.color = a.color])]
    ELSE plot

\* Plot::hline; a line is [at |-> coordinate, color |-> stroke colour]
PlotHLine(plot, hline) ==
    LET a == auto_color(plot, hline.color)
    IN [a.plot EXCEPT !.hlines = Append(@, [hline EXCEPT !.color = a.color])]

\* Plot::vline
PlotVLine(plot, vline) ==
    LET a == auto_color(plot, vline.color)
    IN [a.plot EXCEPT !.vlines = Append(@, [vline EXCEPT !.color = a.color])]

\* Plot::include_x
PlotIncludeX(plot, x) == [plot EXCEPT !.min_auto_bounds = extend_with_x(@, x)]

\* Plot::include_y
PlotIncludeY(plot, y) == [plot EXCEPT !.min_auto_bounds = extend_with_y(@, y)]

RECURSIVE PlotCurves(_, _)
\* .curve(curves[1]).curve(curves[2])...
PlotCurves(plot, curves) ==
    IF curves = <<>> THEN plot
    ELSE PlotCurve(PlotCurves(plot, SubSeq(curves, 1, Len(curves) - 1)), curves[Len(curves)])

RECURSIVE PlotHLines(_, _)
\* .hline(hlines[1]).hline(hlines[2])...
PlotHLines(plot, hlines) ==
    IF hlines = <<>> THEN plot
    ELSE PlotHLine(PlotHLines(plot, SubSeq(hlines, 1, Len(hlines) - 1)), hlines[Len(hlines)])

RECURSIVE PlotVLines(_, _)
\* .vline(vlines[1]).vline(vlines[2])...
PlotVLines(plot, vlines) ==
    IF vlines = <<>> THEN plot
    ELSE PlotVLine(PlotVLines(plot, SubSeq(vlines, 1, Len(vlines) - 1)), vlines[Len(vlines)])

RECURSIVE PlotIncludeXs(_, _)
\* .include_x(xs[1]).include_x(xs[2])...
PlotIncludeXs(plot, xs) ==
    IF xs = <<>> THEN plot
    ELSE PlotIncludeX(PlotIncludeXs(plot, SubSeq(xs, 1, Len(xs) - 1)), xs[Len(xs)])

RECURSIVE PlotIncludeYs(_, _)
\* .include_y(ys[1]).include_y(ys[2])...
PlotIncludeYs(plot, ys) ==
    IF ys = <<>> THEN plot
    ELSE PlotIncludeY(PlotIncludeYs(plot, SubSeq(ys, 1, Len(ys) - 1)), ys[Len(ys)])


\* Plot::view_aspect, Plot::width, Plot::height, Plot::min_size.
PlotViewAspect(plot, view_aspect) == [plot EXCEPT !.view_aspect = Some(view_aspect)]

PlotWidth(plot, w) == [plot EXCEPT !.min_size[1] = w, !.width = Some(w)]

PlotHeight(plot, h) == [plot EXCEPT !.min_size[2] = h, !.height = Some(h)]

PlotMinSize(plot, min_size) == [plot EXCEPT !.min_size = min_size]

RECURSIVE PlotSizings(_, _)
\* The sizing calls of the builder chain, in the caller's order.
PlotSizings(plot, ops) ==
    IF Len(ops) = 0 THEN plot
    ELSE LET prev == PlotSizings(plot, SubSeq(ops, 1, Len(ops) - 1))
             o == ops[Len(ops)]
         IN CASE o.op = "view_aspect" -> PlotViewAspect(prev, o.arg)
              [] o.op = "width" -> PlotWidth(prev, o.arg)
              [] o.op = "height" -> PlotHeight(prev, o.arg)
              [] o.op = "min_size" -> PlotMinSize(prev, o.arg)

\* The Plot a caller builds from a description c of its builder calls:
\* Plot::new(name).curve(..)...hline(..)...vline(..)...include_x(..)...
\* followed by the setters, each of which overwrites one field.
BuildPlot(c) ==
    LET p1 == PlotCurves(PlotNew(c.name), c.curves)
        p2 == PlotHLines(p1, c.hlines)
        p3 == PlotVLines(p2, c.vlines)
        p4 == PlotIncludeXs(p3, c.include_x)
        p5 == PlotSizings(PlotIncludeYs(p4, c.include_y), c.sizing)
    IN [p5 EXCEPT !.center_x_axis = c.center_x_axis,
                  !.center_y_axis = c.center_y_axis,
                  !.allow_zoom = c.allow_zoom,
                  !.allow_drag = c.allow_drag,
                  !.data_aspect = c.data_aspect,
                  !.show_legend = c.show_legend]

-----------------------------------------------------------------------------
(* Prepared::hover *)

RECURSIVE AllPoints(_)
\* The points in the order of "for curve in curves { for value in &curve.values".
AllPoints(curves) ==
    IF curves = <<>> THEN <<>>
    ELSE LET n == Len(curves)
         IN AllPoints(SubSeq(curves, 1, n - 1)) \o
            [i \in 1..Len(curves[n].values) |->
                [curve |-> n, index |-> i, value |-> curves[n].values[i]]]

\* Pos2::distance_sq; infinite when a coordinate is not finite.
distance_sq(a, b) ==
    IF \E i \in 1..2 : ~IsFinite(a[i]) \/ ~IsFinite(b[i]) THEN Inf
    ELSE (a[1] - b[1]) * (a[1] - b[1]) + (a[2] - b[2]) * (a[2] - b[2])

\* A scan in which a later point at the same distance replaces the earlier.
IsCloserOrEqual(dist_sq, closest_dist_sq) == dist_sq <= closest_dist_sq

\* Whether the scan replaces the closest point so far by one at dist_sq.
IsCloser(dist_sq, closest_dist_sq) == dist_sq < closest_dist_sq

RECURSIVE ClosestScan(_, _, _, _)
\* closest_dist_sq and the closest point after the first k points of the scan.
ClosestScan(points, k, transform, pointer) ==
    IF k = 0 THEN [dist_sq |-> InteractRadius * InteractRadius, hit |-> None]
    ELSE LET prev == ClosestScan(points, k - 1, transform, pointer)
             pos == position_from_value(transform, points[k].value)
             dist_sq == distance_sq(pointer, pos)
         IN IF IsCloser(dist_sq, prev.dist_sq)
            THEN [dist_sq |-> dist_sq, hit |-> Some(points[k])]
            ELSE prev

\* A readout that always shows the value under the raw pointer.
HoverAlwaysRaw(transform, show_x, show_y, curves, pointer) ==
    IF ~show_x /\ ~show_y
    THEN [drawn |-> FALSE, closest |-> None, prefix |-> "", value |-> None, marker |-> None]
    ELSE LET points == AllPoints(curves)
             found == ClosestScan(points, Len(points), transform, pointer).hit
         IN [drawn |-> TRUE,
             closest |-> found,
             prefix |-> IF found # None THEN curves[found[1].curve].name ELSE "",
             value |-> Some(value_from_position(transform, pointer)),
             marker |-> IF found # None
                        THEN Some(position_from_value(transform, found[1].value))
                        ELSE None]

\* Prepared::hover(pointer): what the readout shows.  closest is the point
\* found (None: no hit), prefix the name line of the text, value the value
\* displayed, marker the position of the highlight circle.
Hover(transform, show_x, show_y, curves, pointer) ==
    IF ~show_x /\ ~show_y
    THEN [drawn |-> FALSE, closest |-> None, prefix |-> "", value |-> None, marker |-> None]
    ELSE LET points == AllPoints(curves)
             found == ClosestScan(points, Len(points), transform, pointer).hit
         IN [drawn |-> TRUE,
             closest |-> found,
             prefix |-> IF found # None THEN curves[found[1].curve].name ELSE "",
             value |-> IF found # None THEN Some(found[1].value)
                       ELSE Some(value_from_position(transform, pointer)),
             marker |-> IF found # None
                        THEN Some(position_from_value(transform, found[1].value))
                        ELSE None]

-----------------------------------------------------------------------------
(* Plot::ui: the steps *)

\* get_mut_or_insert_with(plot_id, || PlotMemory {..}): the memory the call
\* works on; a new one on the first call for the identity.
NewPlotMemory(min_auto_bounds) ==
    [bounds |-> min_auto_bounds,
     auto_bounds |-> ~is_valid(min_auto_bounds),
     hidden_curves |-> {}]

\* A Plot::ui that starts from a fresh PlotMemory in every call.
GetOrInsertFresh(store, plot_id, min_auto_bounds) ==
    [bounds |-> min_auto_bounds, auto_bounds |-> ~is_valid(min_auto_bounds),
     hidden_curves |-> {}]

GetOrInsert(store, plot_id, min_auto_bounds) ==
    IF plot_id \in DOMAIN store THEN store[plot_id] ELSE NewPlotMemory(min_auto_bounds)

\* A size taken as configured, without the at_least(min_size).
PlotSizeUnclamped(plot, available) ==
    LET w == IF plot.width # None THEN plot.width[1]
             ELSE IF plot.height # None /\ plot.view_aspect # None
                  THEN Div(plot.height[1] * plot.view_aspect[1][1], plot.view_aspect[1][2])
                  ELSE available[1]
        h == IF plot.height # None THEN plot.height[1]
             ELSE IF plot.view_aspect # None
                  THEN Div(w * plot.view_aspect[1][2], plot.view_aspect[1][1])
                  ELSE available[2]
    IN <<w, h>>

\* "Determine the size of the plot in the UI"; view_aspect is <<num, den>>.
PlotSize(plot, available) ==
    LET w == Max2(IF plot.width # None THEN plot.width[1]
                  ELSE IF plot.height # None /\ plot.view_aspect # None
                       THEN Div(plot.height[1] * plot.view_aspect[1][1], plot.view_aspect[1][2])
                       ELSE available[1],
                  plot.min_size[1])
        h == Max2(IF plot.height # None THEN plot.height[1]
                  ELSE IF plot.view_aspect # None
                       THEN Div(w * plot.view_aspect[1][2], plot.view_aspect[1][1])
                       ELSE available[2],
                  plot.min_size[2])
    IN <<w, h>>

RECURSIVE legend_entries_first(_, _, _)
\* A legend whose entry keeps the colour of the first curve of its name.
legend_entries_first(curves, k, hidden_curves) ==
    IF k = 0 THEN <<>>
    ELSE LET prev == legend_entries_first(curves, k - 1, hidden_curves)
             curve == curves[k]
         IN IF curve.name = "" \/ curve.name \in DOMAIN prev THEN prev
            ELSE (curve.name :> [text |-> curve.name, color |-> curve.color,
                                 checked |-> curve.name \notin hidden_curves,
                                 hovered |-> FALSE]) @@ prev

RECURSIVE legend_entries(_, _, _)
\* "Collect the legend entries": the BTreeMap name -> LegendEntry after the
\* first k curves.
legend_entries(curves, k, hidden_curves) ==
    IF k = 0 THEN <<>>
    ELSE LET prev == legend_entries(curves, k - 1, hidden_curves)
             curve == curves[k]
         IN IF curve.name = "" THEN prev
            ELSE IF curve.name \in DOMAIN prev
            THEN [prev EXCEPT ![curve.name].color =
                        IF @ # curve.color THEN NeutralColor ELSE @]
            ELSE (curve.name :> LegendEntryNew(curve.name, curve.color,
                                               curve.name \notin hidden_curves)) @@ prev

\* "Show the legend": every entry is laid out and takes the user's input.
ShowEntries(entries, clicked, hovered) ==
    [n \in DOMAIN entries |-> LegendEntryUi(entries[n], n \in clicked, hovered = Some(n))]

\* "Get the names of the hidden curves."
HiddenCurves(entries) == {entries[n].text : n \in {m \in DOMAIN entries : ~entries[m].checked}}

\* A Plot::ui that leaves the stroke widths alone.
HighlightNothing(curves, entries) == curves

\* "Highlight the hovered curves."
Highlight(curves, entries) ==
    [i \in 1..Len(curves) |->
        IF \E n \in DOMAIN entries : entries[n].hovered /\ curves[i].name = entries[n].text
        THEN [curves[i] EXCEPT !.width = @ * 2]
        ELSE curves[i]]

\* A Plot::ui that keeps every curve.
RetainAll(curves, hidden_curves) == curves

\* "Remove deselected curves."
Retain(curves, hidden_curves) ==
    SelectSeq(curves, LAMBDA curve : curve.name \notin hidden_curves)

\* A legend block that removes the curves of the persisted hidden set also
\* when the legend is not shown.
LegendAlwaysFilters(show_legend, curves, hidden_curves, show_x, show_y, clicked, hovered) ==
    IF show_legend
    THEN LET built == legend_entries(curves, Len(curves), hidden_curves)
             entries == ShowEntries(built, clicked, hovered)
             any == \E n \in DOMAIN entries : entries[n].hovered
             hidden == HiddenCurves(entries)
         IN [built |-> built, entries |-> entries,
             show_x |-> show_x /\ ~any, show_y |-> show_y /\ ~any,
             hidden_curves |-> hidden,
             curves |-> Retain(Highlight(curves, entries), hidden)]
    ELSE [built |-> <<>>, entries |-> <<>>, show_x |-> show_x, show_y |-> show_y,
          hidden_curves |-> hidden_curves, curves |-> Retain(curves, hidden_curves)]

\* A legend block that adds the unchecked names to the persisted hidden set
\* instead of replacing the set.
LegendAccumulating(show_legend, curves, hidden_curves, show_x, show_y, clicked, hovered) ==
    IF show_legend
    THEN LET built == legend_entries(curves, Len(curves), hidden_curves)
             entries == ShowEntries(built, clicked, hovered)
             any == \E n \in DOMAIN entries : entries[n].hovered
             hidden == {n \in hidden_curves : n \notin DOMAIN entries \/ ~entries[n].checked}
                          \cup HiddenCurves(entries)
         IN [built |-> built, entries |-> entries,
             show_x |-> show_x /\ ~any, show_y |-> show_y /\ ~any,
             hidden_curves |-> hidden,
             curves |-> Retain(Highlight(curves, entries), hidden)]
    ELSE [built |-> <<>>, entries |-> <<>>, show_x |-> show_x, show_y |-> show_y,
          hidden_curves |-> hidden_curves, curves |-> curves]

\* The legend block, "if show_legend { .. }".
Legend(show_legend, curves, hidden_curves, show_x, show_y, clicked, hovered) ==
    IF show_legend
    THEN LET built == legend_entries(curves, Len(curves), hidden_curves)
             entries == ShowEntries(built, clicked, hovered)
             any == \E n \in DOMAIN entries : entries[n].hovered
             hidden == HiddenCurves(entries)
         IN [built |-> built, entries |-> entries,
             show_x |-> show_x /\ ~any, show_y |-> show_y /\ ~any,
             hidden_curves |-> hidden,
             curves |-> Retain(Highlight(curves, entries), hidden)]
    ELSE [built |-> <<>>, entries |-> <<>>, show_x |-> show_x, show_y |-> show_y,
          hidden_curves |-> hidden_curves, curves |-> curves]

\* A Plot::ui that assigns the double-click to auto_bounds instead of or-ing it in.
AutoOnDoubleClickAssigned(auto_bounds, double_clicked) == double_clicked

\* A Plot::ui that ignores the double-click.
AutoOnDoubleClickIgnored(auto_bounds, double_clicked) == auto_bounds

\* auto_bounds |= response.double_clicked_by(PointerButton::Primary)
AutoOnDoubleClick(auto_bounds, double_clicked) == auto_bounds \/ double_clicked

RECURSIVE ExtendWithLines(_, _, _)
\* lines.iter().for_each(|line| bounds.extend_with_y(line.y)), axis 2 for
\* hlines; axis 1 with line.x for vlines.
ExtendWithLines(b, lines, axis) ==
    IF lines = <<>> THEN b
    ELSE extend_with_axis(ExtendWithLines(b, SubSeq(lines, 1, Len(lines) - 1), axis),
                          axis, lines[Len(lines)].at)

RECURSIVE MergeCurvesFromFirst(_, _)
\* A merge that restarts from the bounds of the first curve instead of
\* merging into what the lines left.
MergeCurvesFromFirst(b, curves) ==
    IF curves = <<>> THEN b
    ELSE IF Len(curves) = 1 THEN curves[1].bounds
    ELSE merge(MergeCurvesFromFirst(b, SubSeq(curves, 1, Len(curves) - 1)),
               curves[Len(curves)].bounds)

RECURSIVE MergeCurves(_, _)
\* curves.iter().for_each(|curve| bounds.merge(&curve.bounds))
MergeCurves(b, curves) ==
    IF curves = <<>> THEN b
    ELSE merge(MergeCurves(b, SubSeq(curves, 1, Len(curves) - 1)), curves[Len(curves)].bounds)

\* The body of "Set bounds automatically based on content".
AutoFit(min_auto_bounds, hlines, vlines, curves, margin_fraction) ==
    add_relative_margin(
        MergeCurves(ExtendWithLines(ExtendWithLines(min_auto_bounds, hlines, 2), vlines, 1),
                    curves),
        margin_fraction)

\* A Plot::ui that fits the content only when the persisted bounds are not valid.
FitsContentOnlyInvalid(auto_bounds, bounds) == ~is_valid(bounds)

\* A Plot::ui that fits the content in every frame.
FitsContentAlways(auto_bounds, bounds) == TRUE

\* Whether the bounds are set from the content in this call.
FitsContent(auto_bounds, bounds) == auto_bounds \/ ~is_valid(bounds)

\* A Plot::ui that hands empty bounds on.
NotEmptySkipped(bounds) == bounds

\* "Make sure they are not empty."
NotEmpty(bounds) == IF ~is_valid(bounds) THEN new_symmetrical(Unit) ELSE bounds

\* "Scale axes so that the origin is in the center."
CenterAxes(bounds, center_x_axis, center_y_axis) ==
    LET bx == IF center_x_axis THEN make_x_symmetrical(bounds) ELSE bounds
    IN IF center_y_axis THEN make_y_symmetrical(bx) ELSE bx

\* A Plot::ui that never calls set_aspect.
EnforceAspectSkipped(transform, data_aspect) == transform

\* "Enforce equal aspect ratio."
EnforceAspect(transform, data_aspect) ==
    IF data_aspect # None THEN set_aspect(transform, data_aspect[1]) ELSE transform

\* A drag applied whether or not the plot allows dragging.
DragAppliesAlways(allow_drag, dragged) == dragged

\* Whether the drag is applied.
DragApplies(allow_drag, dragged) == allow_drag /\ dragged

\* Whether the zoom block is entered, and whether the zoom and the scroll
\* in it are applied.
ZoomEntered(allow_zoom, hover_pos) == allow_zoom /\ hover_pos # None

ZoomFactor(data_aspect, zoom_delta, zoom_delta_2d) ==
    IF data_aspect # None THEN <<zoom_delta, zoom_delta>> ELSE zoom_delta_2d

ZoomApplies(zoom_factor) == zoom_factor # << <<1, 1>>, <<1, 1>> >>

ScrollApplies(scroll_delta) == scroll_delta # <<0, 0>>

\* A drag that moves the bounds and leaves auto_bounds as it was.
DraggingKeepsAuto(s, allow_drag, dragged, drag_delta) ==
    IF allow_drag /\ dragged
    THEN [s EXCEPT !.transform =
                translate_bounds(s.transform, <<-drag_delta[1], -drag_delta[2]>>)]
    ELSE s

\* "Dragging": the transform and auto_bounds after the block.
Dragging(s, allow_drag, dragged, drag_delta) ==
    IF DragApplies(allow_drag, dragged)
    THEN [transform |-> translate_bounds(s.transform, <<-drag_delta[1], -drag_delta[2]>>),
          auto_bounds |-> FALSE]
    ELSE s

\* A zoom about the corner of the frame instead of the pointer.
ZoomingAboutCorner(s, allow_zoom, hover_pos, zoom_factor, scroll_delta) ==
    IF allow_zoom /\ hover_pos # None
    THEN LET z == IF zoom_factor # << <<1, 1>>, <<1, 1>> >>
                  THEN [transform |-> zoom(s.transform, zoom_factor, s.transform.frame.min),
                        auto_bounds |-> FALSE]
                  ELSE s
         IN IF scroll_delta # <<0, 0>>
            THEN [transform |-> translate_bounds(z.transform,
                                    <<-scroll_delta[1], -scroll_delta[2]>>),
                  auto_bounds |-> FALSE]
            ELSE z
    ELSE s

\* A zoom block that scrolls before it zooms.
ZoomingScrollFirst(s, allow_zoom, hover_pos, zoom_factor, scroll_delta) ==
    IF allow_zoom /\ hover_pos # None
    THEN LET z == IF scroll_delta # <<0, 0>>
                  THEN [transform |-> translate_bounds(s.transform,
                                          <<-scroll_delta[1], -scroll_delta[2]>>),
                        auto_bounds |-> FALSE]
                  ELSE s
         IN IF zoom_factor # << <<1, 1>>, <<1, 1>> >>
            THEN [transform |-> zoom(z.transform, zoom_factor, hover_pos[1]),
                  auto_bounds |-> FALSE]
            ELSE z
    ELSE s

\* "Zooming": the transform and auto_bounds after the block.
Zooming(s, allow_zoom, hover_pos, zoom_factor, scroll_delta) ==
    IF ZoomEntered(allow_zoom, hover_pos)
    THEN LET z == IF ZoomApplies(zoom_factor)
                  THEN [transform |-> zoom(s.transform, zoom_factor, hover_pos[1]),
                        auto_bounds |-> FALSE]
                  ELSE s
         IN IF ScrollApplies(scroll_delta)
            THEN [transform |-> translate_bounds(z.transform,
                                    <<-scroll_delta[1], -scroll_delta[2]>>),
                  auto_bounds |-> FALSE]
            ELSE z
    ELSE s

\* "Initialize values from functions."
GenerateAll(curves, x_range) ==
    [i \in 1..Len(curves) |-> generate_points(curves[i], x_range)]

\* The bounds written to PlotMemory: "let bounds = *transform.bounds()".
PersistedBounds(transform) == transform.bounds

-----------------------------------------------------------------------------
(* Plot::ui, the whole call *)

\* The result of Plot::ui(plot) with the id-keyed store as it is before the
\* call and the frame's input env: the store after the call, and obs, the
\* values the call went through.
UiResult(store, plot, env) ==
    LET plot_id == plot.name
        memory == GetOrInsert(store, plot_id, plot.min_auto_bounds)
        size == PlotSize(plot, env.available)
        rect == [min |-> <<0, 0>>, max |-> size]
        lg == Legend(plot.show_legend, plot.curves, memory.hidden_curves,
                     plot.show_x, plot.show_y, env.legend_clicked, env.legend_hovered)
        auto_bounds == AutoOnDoubleClick(memory.auto_bounds, env.double_clicked)
        fits == FitsContent(auto_bounds, memory.bounds)
        fitted == IF fits
                  THEN AutoFit(plot.min_auto_bounds, plot.hlines, plot.vlines, lg.curves,
                               plot.margin_fraction)
                  ELSE memory.bounds
        resolved == NotEmpty(fitted)
        centered == CenterAxes(resolved, plot.center_x_axis, plot.center_y_axis)
        created == ScreenTransformNew(rect, centered, plot.center_x_axis, plot.center_y_axis)
        aspected == EnforceAspect(created, plot.data_aspect)
        dragged == Dragging([transform |-> aspected, auto_bounds |-> auto_bounds],
                            plot.allow_drag, env.dragged, env.drag_delta)
        zoomed == Zooming(dragged, plot.allow_zoom, env.hover_pos,
                          ZoomFactor(plot.data_aspect, env.zoom_delta, env.zoom_delta_2d),
                          env.scroll_delta)
        transform == zoomed.transform
        curves == GenerateAll(lg.curves, range_x(transform.bounds))
        bounds == PersistedBounds(transform)
        hover == IF env.hover_pos # None
                 THEN Hover(transform, lg.show_x, lg.show_y, curves, env.hover_pos[1])
                 ELSE [drawn |-> FALSE, closest |-> None, prefix |-> "",
                       value |-> None, marker |-> None]
        written == [bounds |-> bounds, auto_bounds |-> zoomed.auto_bounds,
                    hidden_curves |-> lg.hidden_curves]
    IN [store |-> (plot_id :> written) @@ store,
        obs |-> [plot |-> plot, env |-> env,
                 before |-> store,            \* the store before the call
                 first |-> plot_id \notin DOMAIN store,
                 memory |-> memory,           \* the PlotMemory read (or created)
                 rect |-> rect,
                 built |-> lg.built,          \* legend entries as collected
                 entries |-> lg.entries,      \* legend entries after the user's input
                 visible |-> lg.curves,       \* curves left after "Remove deselected curves"
                 auto_in |-> auto_bounds,     \* auto_bounds after the double-click line
                 fits |-> fits,               \* the bounds were set from the content
                 fitted |-> fitted,           \* bounds after "Set bounds automatically"
                 resolved |-> resolved,       \* bounds after "Make sure they are not empty"
                 handed |-> centered,         \* bounds handed to ScreenTransform::new
                 created |-> created.bounds,  \* transform bounds after new
                 aspected |-> aspected.bounds,\* transform bounds after set_aspect
                 transform |-> transform,     \* the transform Prepared draws with
                 curves |-> curves,           \* Prepared.curves
                 show_x |-> lg.show_x, show_y |-> lg.show_y,
                 hover |-> hover,
                 written |-> written]]        \* the PlotMemory inserted at the end

\* last before any call is watched.
NoObservation == [called |-> FALSE]

\* Legend entries the user unchecked, and re-checked, in the call with
\* observation obs.
ToggledOff(obs) == {n \in DOMAIN obs.entries : obs.built[n].checked /\ ~obs.entries[n].checked}

ToggledOn(obs) == {n \in DOMAIN obs.entries : ~obs.built[n].checked /\ obs.entries[n].checked}

\* One Plot::ui call: the caller builds the plot described by c and shows it
\* in a frame whose input is c.env.  A behaviour is a sequence of calls, the
\* final one of which is watched: last holds what it went through.  The
\* calls before it leave last empty.
Ui(c) ==
    /\ last = NoObservation
    /\ \E r \in {UiResult(id_data, BuildPlot(c), c.env)} :
          /\ id_data' = r.store
          /\ last' \in {NoObservation, r.obs}
          /\ userHidden' = (userHidden \ ToggledOn(r.obs)) \cup ToggledOff(r.obs)
          /\ hiddenRun' = IF r.obs.plot.show_legend
                          THEN {n \in hiddenRun : /\ n \in DOMAIN r.obs.entries
                                                  /\ n \notin ToggledOn(r.obs)}
                               \cup ToggledOff(r.obs)
                          ELSE hiddenRun
    /\ calls' = calls + 1
    /\ UNCHANGED <<hv, pa>>

-----------------------------------------------------------------------------
(* The callers and the frames the model explores *)

\* The series of the specification's scenario: (0,0), (1,1), (2,0).
CurveA == CurveNew("a", "red", << <<0, 0>>, <<Unit, Unit>>, <<2 * Unit, 0>> >>, FALSE)

\* A second curve named "a", in another colour: a single point.
CurveA2 == CurveNew("a", "blue", << <<-3 * Unit, 2 * Unit>> >>, FALSE)

\* A curve without a colour of its own.
CurveB == CurveNew("b", TRANSPARENT, << <<0, -2 * Unit>>, <<4 * Unit, 0>> >>, FALSE)

\* An unnamed curve, one of its values not finite.
CurveU == CurveNew("", "red", << <<5 * Unit, 5 * Unit>>, <<Inf, 0>> >>, FALSE)

\* A function-based curve.
CurveF == CurveNew("f", "red", <<>>, TRUE)

\* A curve without data: Plot::curve drops it.
CurveE == CurveNew("e", "red", <<>>, FALSE)

HLine3 == [at |-> 3 * Unit, color |-> TRANSPARENT]

VLineM1 == [at |-> -Unit, color |-> "blue"]

Half == <<1, 2>>

One == <<1, 1>>


\* A frame without any input, 100 x 100 pixels available.
QuietEnv ==
    [available |-> <<100, 100>>,
     double_clicked |-> FALSE,
     dragged |-> FALSE, drag_delta |-> <<0, 0>>,
     hover_pos |-> None,
     zoom_delta |-> One, zoom_delta_2d |-> <<One, One>>,
     scroll_delta |-> <<0, 0>>,
     legend_clicked |-> {}, legend_hovered |-> None]

\* Plot::new("plot").curve(CurveA) shown in a quiet frame.
PlainCall ==
    [name |-> "plot", curves |-> <<CurveA>>, hlines |-> <<>>, vlines |-> <<>>,
     include_x |-> <<>>, include_y |-> <<>>,
     center_x_axis |-> FALSE, center_y_axis |-> FALSE,
     allow_zoom |-> TRUE, allow_drag |-> TRUE,
     data_aspect |-> None, show_legend |-> TRUE,
     sizing |-> <<>>,
     env |-> QuietEnv]

\* The pointer gestures of one frame: drag, hover, zoom, scroll.
Gestures ==
    {[QuietEnv EXCEPT !.dragged = d, !.drag_delta = IF d THEN <<10, -10>> ELSE <<0, 0>>,
                      !.hover_pos = h, !.zoom_delta = z, !.zoom_delta_2d = <<z, z>>,
                      !.scroll_delta = s] :
        d \in BOOLEAN, h \in {None, Some(<<50, 10>>)}, z \in {One, Half},
        s \in {<<0, 0>>, <<0, 25>>}}

\* Drag alone, zoom in alone (pointer over the plot), or nothing.
FewGestures ==
    {g \in Gestures : /\ g.scroll_delta = <<0, 0>>
                      /\ g.zoom_delta \in {One, Half}
                      /\ (g.hover_pos = None) = (g.zoom_delta = One)
                      /\ ~(g.dragged /\ g.hover_pos # None)}

\* Calls that differ in the data and the declared minimum bounds.
DataCalls ==
    {[PlainCall EXCEPT !.curves = cs, !.hlines = hs, !.vlines = vs,
                       !.include_x = inc[1], !.include_y = inc[2],
                       !.env.double_clicked = dc] :
        cs \in {<<>>, <<CurveA>>, <<CurveB, CurveU>>, <<CurveE, CurveF>>},
        hs \in {<<>>, <<HLine3>>}, vs \in {<<>>, <<VLineM1>>},
        inc \in {<< <<>>, <<>> >>, << <<0>>, <<>> >>, << <<0>>, <<0>> >>,
                 << <<0, Unit>>, <<0, Unit>> >>},
        dc \in BOOLEAN}

\* Calls that differ in the gestures and in what the plot allows.
GestureCalls ==
    {[PlainCall EXCEPT !.env = [g EXCEPT !.double_clicked = dc]] :
        g \in Gestures, dc \in BOOLEAN}
    \cup
    {[PlainCall EXCEPT !.env = g, !.allow_drag = a[1], !.allow_zoom = a[2]] :
        g \in Gestures, a \in {<<FALSE, TRUE>>, <<TRUE, FALSE>>}}

\* Calls that differ in the configuration: centering, aspect, size.
ConfigCalls ==
    {[PlainCall EXCEPT !.center_x_axis = cx, !.center_y_axis = cy, !.data_aspect = da,
                       !.env = [g EXCEPT !.available = av]] :
        cx \in BOOLEAN, cy \in BOOLEAN, da \in {None, Some(One)},
        av \in {<<100, 100>>, <<200, 100>>}, g \in FewGestures}

\* Calls that differ in the named curves and in what the user does in the legend.
LegendCalls ==
    {[PlainCall EXCEPT !.curves = cs, !.show_legend = sl,
                       !.env.legend_clicked = ck, !.env.legend_hovered = ph[1],
                       !.env.hover_pos = ph[2]] :
        cs \in {<<CurveA>>, <<CurveB>>, <<CurveA, CurveB>>, <<CurveA, CurveA2>>,
                <<CurveA2, CurveU, CurveA>>},
        sl \in BOOLEAN, ck \in {{}, {"a"}, {"b"}},
        ph \in {<<None, None>>, <<None, Some(<<50, 10>>)>>, <<Some("a"), Some(<<50, 10>>)>>}}

\* Calls of a second plot, with and without declared minimum bounds.
OtherCalls ==
    {[PlainCall EXCEPT !.name = "other", !.curves = <<CurveB>>,
                       !.include_x = inc, !.include_y = inc] :
        inc \in {<<>>, <<0, Unit>>}}

\* Sizing calls of the builder chain a caller may make.
MaxSizing == 2

\* The curves of one call, and the calls in a run, where the order of the
\* series is explored.
MaxFitCurves == 3

MaxFitCalls == 1

SizingOps ==
    {[op |-> "width", arg |-> 200], [op |-> "width", arg |-> 30],
     [op |-> "height", arg |-> 150], [op |-> "height", arg |-> 40],
     [op |-> "view_aspect", arg |-> <<2, 1>>],
     [op |-> "min_size", arg |-> <<300, 300>>], [op |-> "min_size", arg |-> <<10, 10>>]}

\* Calls that differ in the sizing calls, their order and the space available.
SizeCalls ==
    {[PlainCall EXCEPT !.sizing = ops, !.env.available = av] :
        ops \in UNION {[1..n -> SizingOps] : n \in 0..MaxSizing},
        av \in {<<100, 100>>, <<50, 500>>}}

\* Calls with a function-based curve that differ in centering, aspect and
\* the gestures of the frame, the pointer hovering the plot.
OrderCalls ==
    {[PlainCall EXCEPT !.curves = <<CurveA, CurveF>>, !.center_x_axis = cx,
                       !.data_aspect = da, !.env = g] :
        cx \in BOOLEAN, da \in {None, Some(One)},
        g \in {e \in Gestures : e.hover_pos # None}}

\* A curve whose values are all non-finite: its own bounds are not valid.
CurveN == CurveNew("n", "blue", << <<Inf, Inf>> >>, FALSE)

HLineM2 == [at |-> -2 * Unit, color |-> "red"]

HLineHalf == [at |-> Unit \div 2, color |-> "red"]

VLine1 == [at |-> Unit, color |-> "red"]

\* The curve lists of at most n curves, none of them twice.
CurveLists(n) ==
    UNION {{s \in [1..k -> {CurveA, CurveB, CurveF, CurveN}] :
               \A i, j \in 1..k : i # j => s[i] # s[j]} : k \in 0..n}

\* Calls that differ in the order of the curves and of the lines.
FitCalls ==
    {[PlainCall EXCEPT !.curves = cs, !.hlines = hs, !.vlines = vs, !.include_x = ix] :
        cs \in CurveLists(MaxFitCurves),
        hs \in {<<>>, <<HLineHalf, HLineM2>>, <<HLineM2, HLineHalf>>},
        vs \in {<<>>, <<VLineM1, VLine1>>, <<VLine1, VLineM1>>},
        ix \in {<<>>, <<0>>}}

Calls == DataCalls \cup GestureCalls \cup ConfigCalls \cup OtherCalls

-----------------------------------------------------------------------------
(* The plot shown frame after frame *)

NoHover == [asked |-> FALSE]

NoAxis == [painting |-> FALSE]

Init ==
    /\ id_data = <<>>
    /\ last = NoObservation
    /\ calls = 0
    /\ userHidden = {}
    /\ hiddenRun = {}
    /\ hv = NoHover
    /\ pa = NoAxis

Next == calls < MaxCalls /\ \E c \in Calls : Ui(c)

Spec == Init /\ [][Next]_vars

\* The same plot, with the calls that exercise the legend.
NextLegend == calls < MaxLegendCalls /\ \E c \in LegendCalls : Ui(c)

SpecLegend == Init /\ [][NextLegend]_vars

\* The same plot, with the calls that size it.
NextSize == calls < MaxCalls /\ \E c \in SizeCalls : Ui(c)

SpecSize == Init /\ [][NextSize]_vars

\* The same plot, with the calls that put every stage of a frame to work.
NextOrder == calls < MaxCalls /\ \E c \in OrderCalls : Ui(c)

SpecOrder == Init /\ [][NextOrder]_vars

\* The same plot, with the calls that order the series in every way.
NextFit == calls < MaxFitCalls /\ \E c \in FitCalls : Ui(c)

SpecFit == Init /\ [][NextFit]_vars

-----------------------------------------------------------------------------
(* Prepared::hover on its own: the curves and the pointer are drawn from
   bounded sets, the transform maps one data unit to one pixel *)

\* 100 x 100 pixels showing [0, 100] x [0, 100]: the value (x, y) is drawn at
\* the pixel (x, 100 - y).
HoverTransform ==
    ScreenTransformNew([min |-> <<0, 0>>, max |-> <<100, 100>>],
                       [min |-> <<0, 0>>, max |-> <<100, 100>>], FALSE, FALSE)

HoverPointer == <<50, 50>>

\* Values at 10, 10, 5, 16 (the radius itself) and more than 16 pixels from
\* the pointer.
HoverValues == {<<40, 50>>, <<60, 50>>, <<50, 45>>, <<50, 34>>, <<90, 90>>}

RECURSIVE GroupCurves(_)
\* The curves "a", "b", .. made of a sequence of values, each marked with
\* whether a new curve starts at it.
GroupCurves(marked) ==
    IF Len(marked) = 0 THEN <<>>
    ELSE LET prev == GroupCurves(SubSeq(marked, 1, Len(marked) - 1))
             m == marked[Len(marked)]
         IN IF m.starts \/ prev = <<>>
            THEN Append(prev, CurveNew(<<"a", "b", "c", "d", "e">>[Len(prev) + 1], "red",
                                       <<m.value>>, FALSE))
            ELSE [prev EXCEPT ![Len(prev)] =
                    CurveNew(@.name, @.color, Append(@.values, m.value), FALSE)]

HoverInputs ==
    UNION {[1..n -> [value : HoverValues, starts : BOOLEAN]] : n \in 0..MaxHoverPoints}

NotAsked == [drawn |-> FALSE, closest |-> None, prefix |-> "", value |-> None, marker |-> None]

InitHover ==
    /\ id_data = <<>>
    /\ last = NoObservation
    /\ calls = 0
    /\ userHidden = {}
    /\ hiddenRun = {}
    /\ pa = NoAxis
    /\ \E marked \in HoverInputs, show \in {<<TRUE, TRUE>>, <<TRUE, FALSE>>, <<FALSE, FALSE>>} :
          /\ IF Len(marked) = 0 THEN TRUE ELSE marked[1].starts
          /\ hv = [asked |-> FALSE, curves |-> GroupCurves(marked), pointer |-> HoverPointer,
                   show_x |-> show[1], show_y |-> show[2], result |-> NotAsked]

\* self.hover(ui, pointer, &mut shapes)
HoverQuery ==
    /\ ~hv.asked
    /\ hv' = [hv EXCEPT !.asked = TRUE,
                        !.result = Hover(HoverTransform, hv.show_x, hv.show_y, hv.curves,
                                         hv.pointer)]
    /\ UNCHANGED <<id_data, last, calls, userHidden, hiddenRun, pa>>

SpecHover == InitHover /\ [][HoverQuery]_vars

-----------------------------------------------------------------------------
(* Prepared::paint_axis on its own: the transform and the axis are drawn from
   bounded sets, every iteration of "for i in 0.." is one step *)

\* Iterations of the tick loop the model follows.
MaxTicks == 40

\* base, min_line_spacing_in_points and the lower end of the text range.
Base == 10

MinLineSpacing == 6

MinTextSpacing == 40

\* The powers of ten 0.1, 1, 10, 100 that basef.powi(..) yields here.
PowersOfTen == {Unit \div Base, Unit, Unit * Base, Unit * Base * Base}

\* The extent of the bounds and of the frame along an axis (1: x, 2: y).
BoundsExtent(t, axis) == t.bounds.max[axis] - t.bounds.min[axis]

FrameExtent(t, axis) == t.frame.max[axis] - t.frame.min[axis]

\* |dvalue_dpos()[axis]| as the fraction <<values, points>>.
dvalue_dpos_abs(t, axis) == <<BoundsExtent(t, axis), FrameExtent(t, axis)>>

\* step_size: the least power of ten that is no less than
\* |dvalue_dpos[axis]| * min_line_spacing_in_points.
StepSize(t, axis) ==
    LET d == dvalue_dpos_abs(t, axis)
        enough(p) == p * d[2] >= d[1] * MinLineSpacing
    IN CHOOSE p \in PowersOfTen :
          enough(p) /\ \A q \in PowersOfTen : enough(q) => p <= q

\* step_size_in_points = |dpos_dvalue[axis] * step_size|, as <<num, den>>.
StepSizeInPoints(t, axis, step_size) ==
    <<FrameExtent(t, axis) * step_size, BoundsExtent(t, axis)>>

\* value_cross = 0.0.clamp(bounds.min[1 - axis], bounds.max[1 - axis])
ValueCross(t, axis) ==
    Max2(t.bounds.min[3 - axis], Min2(0, t.bounds.max[3 - axis]))

\* Ticks counted from bounds.min itself.
ValueMainFromMin(step_size, min, i) == min + i * step_size

\* value_main = step_size * (bounds.min[axis] / step_size + i).floor()
ValueMain(step_size, min, i) == step_size * Div(min + i * step_size, step_size)

\* A loop without its break.
TickBreaksNever(value_main, max) == FALSE

\* "if value_main > bounds.max[axis] { break; }"
TickBreaks(value_main, max) == value_main > max

\* n = (value_main / step_size).round()
TickN(value_main, step_size) == Div(2 * value_main + step_size, 2 * step_size)

\* spacing_in_points: wider for the multiples of 10 and of 100.
SpacingInPoints(n, step_size_in_points) ==
    IF n % (Base * Base) = 0 THEN <<step_size_in_points[1] * Base * Base, step_size_in_points[2]>>
    ELSE IF n % Base = 0 THEN <<step_size_in_points[1] * Base, step_size_in_points[2]>>
    ELSE step_size_in_points

\* line_alpha > 0.0 and text_alpha > 0.0: remap_clamp is positive above the
\* lower end of its input range.
LineAlphaPositive(spacing) == spacing[1] > MinLineSpacing * spacing[2]

TextAlphaPositive(spacing) == spacing[1] > MinTextSpacing * spacing[2]

\* What one iteration that does not break processes.
Tick(t, axis, step_size, i) ==
    LET value_main == ValueMain(step_size, t.bounds.min[axis], i)
        value_cross == ValueCross(t, axis)
        value == IF axis = 1 THEN <<value_main, value_cross>> ELSE <<value_cross, value_main>>
        spacing == SpacingInPoints(TickN(value_main, step_size),
                                   StepSizeInPoints(t, axis, step_size))
    IN [i |-> i, value_main |-> value_main, value |-> value,
        pos_in_gui |-> position_from_value(t, value),
        line |-> LineAlphaPositive(spacing),
        text |-> TextAlphaPositive(spacing)]

\* Ranges of an axis: whole and broken multiples of the step, across zero.
TickRanges ==
    {<<0, 2 * Unit>>, <<-7, 33>>, <<5, 38>>, <<3, 203>>, <<-47, 153>>,
     <<13, 2013>>, <<-Unit, Unit>>}

TickTransforms ==
    {ScreenTransformNew([min |-> <<0, 0>>, max |-> <<100, 100>>],
                        [min |-> <<x[1], y[1]>>, max |-> <<x[2], y[2]>>], FALSE, FALSE) :
        x \in TickRanges, y \in TickRanges}

InitTicks ==
    /\ id_data = <<>>
    /\ last = NoObservation
    /\ calls = 0
    /\ userHidden = {}
    /\ hiddenRun = {}
    /\ hv = NoHover
    /\ \E t \in TickTransforms, axis \in 1..2 :
          pa = [painting |-> TRUE, transform |-> t, axis |-> axis,
                step_size |-> StepSize(t, axis), i |-> 0, done |-> FALSE, ticks |-> <<>>]

\* One iteration of "for i in 0.. { .. }" of self.paint_axis(ui, d, &mut shapes).
PaintAxisStep ==
    /\ pa.painting /\ ~pa.done /\ pa.i < MaxTicks
    /\ LET value_main == ValueMain(pa.step_size, pa.transform.bounds.min[pa.axis], pa.i)
       IN IF TickBreaks(value_main, pa.transform.bounds.max[pa.axis])
          THEN pa' = [pa EXCEPT !.done = TRUE]
          ELSE pa' = [pa EXCEPT !.i = @ + 1,
                                !.ticks = Append(@, Tick(pa.transform, pa.axis,
                                                         pa.step_size, pa.i))]
    /\ UNCHANGED <<id_data, last, calls, userHidden, hiddenRun, hv>>

SpecTicks == InitTicks /\ [][PaintAxisStep]_vars

\* paint_axis runs to completion within the call: an iteration that can be
\* taken is taken.
SpecTicksLive == SpecTicks /\ WF_vars(PaintAxisStep)

-----------------------------------------------------------------------------
(* Properties of Plot::ui: vocabulary *)

\* A call has been watched: last describes it.
Watched == last # NoObservation

\* The frame's input, read off the watched call.
DragSeen == last.env.dragged

HoverSeen == last.env.hover_pos # None

\* The zoom factor Plot::ui reads in the watched call.
ZoomSeen ==
    IF last.plot.data_aspect # None
    THEN <<last.env.zoom_delta, last.env.zoom_delta>>
    ELSE last.env.zoom_delta_2d

ZoomDiffers == ZoomSeen # <<One, One>>

ScrollSeen == last.env.scroll_delta # <<0, 0>>

\* A drag, a zoom or a scroll was applied in the watched call.
GestureApplied ==
    \/ last.plot.allow_drag /\ DragSeen
    \/ last.plot.allow_zoom /\ HoverSeen /\ (ZoomDiffers \/ ScrollSeen)

\* The watched call's frame holds no drag, no zoom, no scroll and no double-click.
QuietFrame ==
    /\ ~DragSeen
    /\ last.env.zoom_delta = One /\ last.env.zoom_delta_2d = <<One, One>>
    /\ ~ScrollSeen
    /\ ~last.env.double_clicked

\* The auto-fit bounds of the watched call: from the declared minimum, the
\* lines and the visible curves, with the margin, never left invalid.
FitOfCall ==
    NotEmpty(AutoFit(last.plot.min_auto_bounds, last.plot.hlines, last.plot.vlines,
                     last.visible, last.plot.margin_fraction))

\* The PlotMemory in the store after the watched call.
Persisted == id_data[last.plot.name]

-----------------------------------------------------------------------------
(* C1 *)

\* C1: when the persisted mode is Manual and the call sees a primary
\* double-click, the bounds resolved in the call are the auto-fit bounds
\* (declared minimum, lines, visible curves), and when no drag, zoom or
\* scroll is applied in the call the persisted auto_bounds is true afterwards.
C1_DoubleClickRefits ==
    (Watched /\ ~last.memory.auto_bounds /\ last.env.double_clicked) =>
        /\ last.resolved = FitOfCall
        /\ ~GestureApplied => (last.written.auto_bounds /\ Persisted.auto_bounds)

\* A Manual plot, double-clicked without a gesture, whose bounds move.
C1_Witness ==
    /\ Watched /\ ~last.first /\ ~last.memory.auto_bounds /\ last.env.double_clicked
    /\ ~GestureApplied
    /\ last.resolved # last.memory.bounds
    /\ Persisted.auto_bounds

-----------------------------------------------------------------------------
(* C2 *)

\* C2: with allow_drag and allow_zoom left true, a call in which a primary
\* drag occurs, or the pointer is over the plot and the zoom factor differs
\* from 1 or the scroll delta is non-zero, ends with persisted auto_bounds
\* false; and a call that starts in Manual mode and sees no double-click does
\* not recompute the bounds from the data and stays in Manual mode.
C2_GestureMakesManual ==
    Watched =>
        /\ (/\ last.plot.allow_drag /\ last.plot.allow_zoom
            /\ (DragSeen \/ (HoverSeen /\ (ZoomDiffers \/ ScrollSeen))))
              => (~last.written.auto_bounds /\ ~Persisted.auto_bounds)
        /\ (~last.memory.auto_bounds /\ ~last.env.double_clicked)
              => /\ ~last.fits
                 /\ last.resolved = last.memory.bounds
                 /\ ~Persisted.auto_bounds

\* An Auto-fit plot that a gesture turns Manual.
C2_Witness ==
    /\ Watched /\ last.memory.auto_bounds /\ ~last.env.double_clicked
    /\ last.plot.allow_drag /\ last.plot.allow_zoom
    /\ HoverSeen /\ ZoomDiffers /\ ~DragSeen
    /\ ~Persisted.auto_bounds
    /\ Persisted.bounds # FitOfCall

-----------------------------------------------------------------------------
(* C3 *)

\* The watched call starts in Manual mode with valid bounds and its frame is
\* quiet.
ManualQuiet ==
    /\ Watched /\ ~last.memory.auto_bounds /\ is_valid(last.memory.bounds)
    /\ QuietFrame

\* C3 as stated: a quiet call that starts in Manual mode with valid bounds B
\* persists exactly B, whatever curves, lines, screen rectangle, centering
\* flags and data_aspect the call supplies.
C3_FrozenWhateverFlags ==
    ManualQuiet => (last.written.bounds = last.memory.bounds
                    /\ Persisted.bounds = last.memory.bounds)

\* C3, amended: a quiet call that starts in Manual mode with valid bounds B of
\* non-zero width and height, with center_x_axis and center_y_axis off and
\* data_aspect unset, persists exactly B and stays Manual, whatever curves,
\* lines and screen rectangle the call supplies.
C3_FrozenWithoutFlags ==
    (/\ ManualQuiet
     /\ ~last.plot.center_x_axis /\ ~last.plot.center_y_axis
     /\ last.plot.data_aspect = None
     /\ width(last.memory.bounds) > 0 /\ height(last.memory.bounds) > 0)
        => /\ last.written.bounds = last.memory.bounds
           /\ Persisted.bounds = last.memory.bounds
           /\ ~Persisted.auto_bounds

\* A later quiet call in Manual mode whose data would fit other bounds.
C3_Witness ==
    /\ ManualQuiet /\ ~last.first
    /\ ~last.plot.center_x_axis /\ ~last.plot.center_y_axis
    /\ last.plot.data_aspect = None
    /\ width(last.memory.bounds) > 0 /\ height(last.memory.bounds) > 0
    /\ last.memory.bounds # FitOfCall
    /\ Persisted.bounds = last.memory.bounds

-----------------------------------------------------------------------------
(* C4 *)

\* What the watched call would have done with data_aspect unset and the same
\* store and inputs.
WithoutAspect == UiResult(last.before, [last.plot EXCEPT !.data_aspect = None], last.env).obs

\* C4 as stated: with data_aspect configured, the bounds written to PlotMemory
\* equal those written with data_aspect unset and the same inputs.
C4_AspectNotPersisted ==
    (Watched /\ last.plot.data_aspect # None) =>
        last.written.bounds = WithoutAspect.written.bounds

\* C4, amended: data_aspect is no field of PlotMemory and set_aspect is applied
\* in every call to the transform built from the resolved bounds; the bounds
\* written to PlotMemory are the transform's bounds after set_aspect (and after
\* the call's gestures), so they contain the adjustment.
C4_AspectAdjustmentPersisted ==
    (Watched /\ last.plot.data_aspect # None) =>
        /\ DOMAIN last.written = {"bounds", "auto_bounds", "hidden_curves"}
        /\ last.aspected =
              set_aspect(ScreenTransformNew(last.rect, last.handed,
                             last.plot.center_x_axis, last.plot.center_y_axis),
                         last.plot.data_aspect[1]).bounds
        /\ ~GestureApplied => (last.written.bounds = last.aspected
                               /\ Persisted.bounds = last.aspected)

\* A call without gesture in which set_aspect changes the bounds and the
\* changed bounds are persisted.
C4_Witness ==
    /\ Watched /\ last.plot.data_aspect # None /\ ~GestureApplied
    /\ last.aspected # last.created
    /\ Persisted.bounds = last.aspected
    /\ Persisted.bounds # WithoutAspect.written.bounds

-----------------------------------------------------------------------------
(* C5 *)

\* The watched call fits empty content: no visible curve, no line, no declared
\* minimum.
EmptyFit ==
    /\ Watched /\ last.fits
    /\ last.visible = <<>> /\ last.plot.hlines = <<>> /\ last.plot.vlines = <<>>
    /\ last.plot.min_auto_bounds = NOTHING

\* C5: every PlotMemory in the store holds valid bounds; the bounds handed to
\* ScreenTransform::new and the bounds written by a call are valid; and a call
\* that auto-fits with no visible curve, no hline, no vline and no declared
\* minimum resolves exactly [-1,1]x[-1,1].
C5_BoundsNeverInvalid ==
    /\ \A plot_id \in DOMAIN id_data : is_valid(id_data[plot_id].bounds)
    /\ Watched => (is_valid(last.handed) /\ is_valid(last.written.bounds))
    /\ EmptyFit => last.resolved = new_symmetrical(Unit)

\* An auto-fit of empty content that resolves the unit default and persists
\* valid bounds.
C5_Witness ==
    /\ EmptyFit
    /\ last.resolved = [min |-> <<-Unit, -Unit>>, max |-> <<Unit, Unit>>]
    /\ is_valid(Persisted.bounds)

-----------------------------------------------------------------------------
(* C6 *)

\* The finite points of the curves left after the hidden ones are removed.
VisiblePoints ==
    UNION {{last.visible[i].values[j] :
                j \in {k \in DOMAIN last.visible[i].values :
                          /\ IsFinite(last.visible[i].values[k][1])
                          /\ IsFinite(last.visible[i].values[k][2])}} :
           i \in DOMAIN last.visible}

\* C6: in every call that resolves its bounds by auto-fit, the resolved bounds
\* contain every finite point of every curve that is not hidden, the y of every
\* hline and the x of every vline, also for a plot that has only lines.
C6_AutoFitCoversData ==
    (Watched /\ last.fits) =>
        /\ \A v \in VisiblePoints : Contains(last.resolved, v)
        /\ \A i \in DOMAIN last.plot.hlines :
              /\ last.resolved.min[2] <= last.plot.hlines[i].at
              /\ last.plot.hlines[i].at <= last.resolved.max[2]
        /\ \A i \in DOMAIN last.plot.vlines :
              /\ last.resolved.min[1] <= last.plot.vlines[i].at
              /\ last.plot.vlines[i].at <= last.resolved.max[1]

-----------------------------------------------------------------------------
(* C7 *)

\* C7: the first call for an identity creates the memory with bounds = the
\* declared minimum bounds, auto_bounds = (those are not valid) and an empty
\* hidden set, so that with a valid declared minimum and no double-click the
\* call resolves exactly the declared minimum and does not fit its data; a
\* later call for the identity reads the memory the store holds, whatever
\* minimum it declares.
C7_MemoryInitialisation ==
    Watched =>
        /\ last.first =>
              /\ last.memory = [bounds |-> last.plot.min_auto_bounds,
                                auto_bounds |-> ~is_valid(last.plot.min_auto_bounds),
                                hidden_curves |-> {}]
              /\ (is_valid(last.plot.min_auto_bounds) /\ ~last.env.double_clicked)
                    => /\ ~last.auto_in /\ ~last.fits
                       /\ last.resolved = last.plot.min_auto_bounds
        /\ ~last.first => last.memory = last.before[last.plot.name]

\* A first call with a valid declared minimum: it starts Manual with exactly
\* those bounds, which are not the fit of its data.
C7_Witness ==
    /\ Watched /\ last.first
    /\ is_valid(last.plot.min_auto_bounds) /\ ~last.env.double_clicked
    /\ last.plot.curves # <<>>
    /\ last.resolved = last.plot.min_auto_bounds
    /\ last.resolved # FitOfCall
    /\ ~Persisted.auto_bounds

-----------------------------------------------------------------------------
(* C8 *)

\* The curves of name n in a list of curves.
Named(curves, n) == SelectSeq(curves, LAMBDA curve : curve.name = n)

\* No curve of a name in names is rendered, fitted or hovered in the watched
\* call.
AbsentFromCall(names) ==
    /\ \A i \in DOMAIN last.visible : last.visible[i].name \notin names
    /\ \A i \in DOMAIN last.curves : last.curves[i].name \notin names
    /\ last.fits =>
          last.resolved =
             NotEmpty(AutoFit(last.plot.min_auto_bounds, last.plot.hlines, last.plot.vlines,
                              SelectSeq(last.plot.curves,
                                        LAMBDA curve : curve.name \notin names),
                              last.plot.margin_fraction))
    /\ last.hover.closest # None =>
          last.curves[last.hover.closest[1].curve].name \notin names

\* C8 as stated: with the legend shown, a name the user unchecked and has not
\* re-checked since is absent from the render list, the auto-fit and the hover
\* query of the call of the click and of every following call.
C8_HiddenUntilRechecked ==
    (Watched /\ last.plot.show_legend) => AbsentFromCall(userHidden)

\* C8, amended: the hidden set is rebuilt in every call that shows the legend
\* from the entries of the curves supplied.  A name the user unchecked is
\* absent from the render list, the auto-fit and the hover query in the call
\* of the click and in the following calls that show the legend, as long as
\* every call showing the legend in between supplied a curve of that name and
\* the entry was not re-checked; in the call in which it is re-checked all
\* its curves are rendered and fitted again.
C8_HiddenWhileSupplied ==
    /\ \A plot_id \in DOMAIN id_data : id_data[plot_id].hidden_curves = hiddenRun
    /\ (Watched /\ last.plot.show_legend) =>
          /\ AbsentFromCall(hiddenRun)
          /\ \A n \in ToggledOn(last) :
                /\ Len(Named(last.curves, n)) = Len(Named(last.plot.curves, n))
                /\ Len(Named(last.visible, n)) = Len(Named(last.plot.curves, n))

\* A call after the one of the click: the name is still supplied, still
\* hidden, and its curves are left out of the fit.
C8_Witness ==
    /\ Watched /\ last.plot.show_legend /\ ~last.first /\ last.fits
    /\ \E n \in hiddenRun :
          /\ n \in last.memory.hidden_curves /\ n \notin ToggledOff(last)
          /\ Named(last.plot.curves, n) # <<>>
          /\ Named(last.curves, n) = <<>>
          /\ last.resolved #
                NotEmpty(AutoFit(last.plot.min_auto_bounds, last.plot.hlines,
                                 last.plot.vlines, last.plot.curves,
                                 last.plot.margin_fraction))

-----------------------------------------------------------------------------
(* C9 *)

\* The names and the stroke colours of the curves handed to the watched call.
CurveNames == {last.plot.curves[i].name : i \in DOMAIN last.plot.curves}

ColorsOf(n) ==
    {last.plot.curves[i].color : i \in {k \in DOMAIN last.plot.curves :
                                           last.plot.curves[k].name = n}}

\* C9: the legend collected has exactly one entry per distinct non-empty
\* curve name; the entry carries the name, is checked iff the name is not in
\* the persisted hidden set, and has the stroke colour common to the curves of
\* the name, or the neutral colour when two of them differ, whatever the order
\* of the curves.
C9_LegendConstruction ==
    (Watched /\ last.plot.show_legend) =>
        /\ DOMAIN last.built = CurveNames \ {""}
        /\ \A n \in DOMAIN last.built :
              /\ last.built[n].text = n
              /\ last.built[n].checked = (n \notin last.memory.hidden_curves)
              /\ IF Cardinality(ColorsOf(n)) = 1
                 THEN last.built[n].color \in ColorsOf(n)
                 ELSE last.built[n].color = NeutralColor

\* A legend over an unnamed curve and two curves of one name and two colours,
\* the name being in the persisted hidden set.
C9_Witness ==
    /\ Watched /\ last.plot.show_legend
    /\ "" \in CurveNames
    /\ \E n \in DOMAIN last.built :
          /\ Cardinality(ColorsOf(n)) = 2
          /\ last.built[n].color = NeutralColor
          /\ n \in last.memory.hidden_curves /\ ~last.built[n].checked

-----------------------------------------------------------------------------
(* C10 *)

\* The points of the hover query in iteration order, and the squared screen
\* distance of the k-th of them to the pointer.
QueryPoints == AllPoints(hv.curves)

QueryDistSq(k) ==
    distance_sq(hv.pointer, position_from_value(HoverTransform, QueryPoints[k].value))

\* The k-th point lies inside the interaction radius.
InsideRadius(k) == QueryDistSq(k) < InteractRadius * InteractRadius

\* C10: when the readout is drawn and at least one point lies inside the
\* interaction radius, a point is reported; the reported point has the minimal
\* squared screen distance to the pointer among all points of all curves, and
\* every point before it in iteration order (curve order, then point order)
\* is strictly farther.
C10_HoverPicksFirstNearest ==
    (hv.asked /\ hv.result.drawn) =>
        /\ (\E k \in DOMAIN QueryPoints : InsideRadius(k)) => hv.result.closest # None
        /\ hv.result.closest # None =>
              \E k \in DOMAIN QueryPoints :
                  /\ QueryPoints[k] = hv.result.closest[1]
                  /\ InsideRadius(k)
                  /\ \A i \in DOMAIN QueryPoints : QueryDistSq(k) <= QueryDistSq(i)
                  /\ \A i \in 1..(k - 1) : QueryDistSq(k) < QueryDistSq(i)

\* Two points of two curves at the same, minimal distance inside the radius,
\* after a farther point: the earlier of the two is reported.
C10_Witness ==
    /\ hv.asked /\ hv.result.drawn /\ hv.result.closest # None
    /\ \E k, j \in DOMAIN QueryPoints :
          /\ 1 < k /\ k < j
          /\ QueryPoints[k] = hv.result.closest[1]
          /\ QueryPoints[k].curve # QueryPoints[j].curve
          /\ QueryDistSq(j) = QueryDistSq(k)
          /\ QueryDistSq(1) > QueryDistSq(k)

-----------------------------------------------------------------------------
(* C11 *)

\* The k-th point is no farther than the interaction radius.
WithinRadius(k) == QueryDistSq(k) <= InteractRadius * InteractRadius

\* The k-th point is a nearest point of the query.
Nearest(k) == \A i \in DOMAIN QueryPoints : QueryDistSq(k) <= QueryDistSq(i)

\* C11: a point whose squared screen distance to the pointer is at most 256,
\* 256 itself included, is reported when it is the nearest point (or a point
\* at the same distance is).
C11_RadiusInclusive ==
    (hv.asked /\ hv.result.drawn) =>
        \A k \in DOMAIN QueryPoints :
            (WithinRadius(k) /\ Nearest(k)) =>
                /\ hv.result.closest # None
                /\ \E j \in DOMAIN QueryPoints :
                      /\ QueryPoints[j] = hv.result.closest[1]
                      /\ QueryDistSq(j) = QueryDistSq(k)

-----------------------------------------------------------------------------
(* C12 *)

\* C12: when every point is farther than the interaction radius from the
\* pointer, or there is no point, no point is reported, no marker is drawn,
\* the readout has no name prefix and shows the inverse transform of the
\* pointer position; when a point is hit, the marker is at the position of
\* that point, the value shown is that point and the prefix is the name of
\* its curve.
C12_HoverFallbackAndPrefix ==
    (hv.asked /\ hv.result.drawn) =>
        /\ (\A k \in DOMAIN QueryPoints : ~WithinRadius(k)) =>
              /\ hv.result.closest = None
              /\ hv.result.marker = None
              /\ hv.result.prefix = ""
              /\ hv.result.value = Some(value_from_position(HoverTransform, hv.pointer))
        /\ hv.result.closest # None =>
              LET hit == hv.result.closest[1]
              IN /\ hit.value = hv.curves[hit.curve].values[hit.index]
                 /\ hv.result.marker = Some(position_from_value(HoverTransform, hit.value))
                 /\ hv.result.value = Some(hit.value)
                 /\ hv.result.prefix = hv.curves[hit.curve].name

\* A hit on a point of the second curve, away from the pointer.
C12_Witness ==
    /\ hv.asked /\ hv.result.drawn /\ hv.result.closest # None
    /\ hv.result.closest[1].curve = 2
    /\ hv.result.prefix = "b"
    /\ hv.result.value # Some(value_from_position(HoverTransform, hv.pointer))
    /\ hv.result.marker # None /\ hv.result.marker # Some(hv.pointer)

-----------------------------------------------------------------------------
(* C13 *)

\* The names whose legend entry the pointer hovers in the watched call.
HoveredNames ==
    IF last.plot.show_legend /\ last.env.legend_hovered # None
    THEN {last.env.legend_hovered[1]} \cap (CurveNames \ {""})
    ELSE {}

\* The curves the caller supplied that are rendered in the watched call.
SuppliedRendered ==
    IF last.plot.show_legend
    THEN SelectSeq(last.plot.curves, LAMBDA curve : curve.name \notin last.written.hidden_curves)
    ELSE last.plot.curves

\* The stroke widths of a list of curves are the supplied ones, doubled for
\* the curves of a hovered name and for no other curve.
WidthsDoubledFor(curves, names) ==
    /\ Len(curves) = Len(SuppliedRendered)
    /\ \A i \in DOMAIN curves :
          /\ curves[i].name = SuppliedRendered[i].name
          /\ curves[i].width = IF curves[i].name \in names
                               THEN 2 * SuppliedRendered[i].width
                               ELSE SuppliedRendered[i].width

\* C13: in a call in which the pointer hovers the legend entry of name N, the
\* stroke width of every rendered curve named N is exactly twice the supplied
\* one and that of every other curve is the supplied one, and no readout
\* (crosshair, marker, text) is emitted; nothing of the hover is in the
\* PlotMemory written, and in a call without legend hover, whatever the calls
\* before it, the widths are the supplied ones and the readout is emitted
\* when the pointer is over the plot.
C13_LegendHoverFrameLocal ==
    Watched =>
        /\ WidthsDoubledFor(last.visible, HoveredNames)
        /\ WidthsDoubledFor(last.curves, HoveredNames)
        /\ DOMAIN last.written = {"bounds", "auto_bounds", "hidden_curves"}
        /\ HoveredNames # {} => (~last.show_x /\ ~last.show_y /\ ~last.hover.drawn)
        /\ (HoveredNames = {} /\ last.env.hover_pos # None
                /\ (last.plot.show_x \/ last.plot.show_y))
              => last.hover.drawn

\* A later call in which the pointer is over the entry of one of two names:
\* the curves of that name are drawn twice as wide, the other curve is not,
\* and no readout is emitted although the pointer is over the plot.
C13_Witness ==
    /\ Watched /\ ~last.first /\ HoveredNames # {}
    /\ last.env.hover_pos # None /\ ~last.hover.drawn
    /\ \E i, j \in DOMAIN last.curves :
          /\ last.curves[i].name \in HoveredNames /\ last.curves[i].width = 2
          /\ last.curves[j].name \notin HoveredNames /\ last.curves[j].width = 1

-----------------------------------------------------------------------------
(* Properties of Prepared::paint_axis *)

\* The ends of the bounds on the axis painted.
AxisMin == pa.transform.bounds.min[pa.axis]

AxisMax == pa.transform.bounds.max[pa.axis]

\* floor(bounds.min / step_size) and floor(bounds.max / step_size).
FloorMin == Div(AxisMin, pa.step_size)

FloorMax == Div(AxisMax, pa.step_size)

-----------------------------------------------------------------------------
(* C14 *)

\* C14: every tick for which paint_axis emits a gridline or a label lies in
\* [bounds.min, bounds.max] on its axis, the first one included.
C14_TicksInsideBounds ==
    pa.painting =>
        \A k \in DOMAIN pa.ticks :
            (pa.ticks[k].line \/ pa.ticks[k].text) =>
                (AxisMin <= pa.ticks[k].value_main /\ pa.ticks[k].value_main <= AxisMax)

-----------------------------------------------------------------------------
(* C15 *)

\* C15: the tick loop reaches a value greater than bounds.max and breaks,
\* after at most floor(max/step) - floor(min/step) + 2 iterations.
C15_TickLoopTerminates ==
    <>(pa.painting /\ pa.done /\ pa.i + 1 <= FloorMax - FloorMin + 2)

\* A loop that broke after eighteen iterations or more, as many as the bound
\* allows, on bounds whose minimum is no multiple of the step.
C15_Witness ==
    /\ pa.painting /\ pa.done
    /\ pa.i + 1 >= 18
    /\ pa.i + 1 = FloorMax - FloorMin + 2
    /\ AxisMin % pa.step_size # 0

-----------------------------------------------------------------------------
(* C16 *)

-----------------------------------------------------------------------------
(* C17 *)

\* The size allocated in the watched call, and a length times or over an
\* aspect <<num, den>>.
AllocatedSize == <<RectWidth(last.rect), RectHeight(last.rect)>>

TimesAspect(x, aspect) == Div(x * aspect[1], aspect[2])

OverAspect(x, aspect) == Div(x * aspect[2], aspect[1])

\* C17 as stated: an explicit width (height) is the resulting width (height),
\* also with a min_size set afterwards; a missing width with height and
\* view_aspect set is height * aspect; a missing height with view_aspect set
\* is the resulting width / aspect; otherwise the missing dimension is the
\* available space.
C17_ExplicitSizeWins ==
    Watched =>
        /\ AllocatedSize[1] =
              IF last.plot.width # None THEN last.plot.width[1]
              ELSE IF last.plot.height # None /\ last.plot.view_aspect # None
                   THEN TimesAspect(last.plot.height[1], last.plot.view_aspect[1])
                   ELSE last.env.available[1]
        /\ AllocatedSize[2] =
              IF last.plot.height # None THEN last.plot.height[1]
              ELSE IF last.plot.view_aspect # None
                   THEN OverAspect(AllocatedSize[1], last.plot.view_aspect[1])
                   ELSE last.env.available[2]

\* C17, amended: each dimension is the value of the precedence above (explicit
\* width or height; else the aspect fills in the missing one; else the
\* available space), raised to min_size on its axis when it is smaller.
\* min_size is the field as the builder chain left it: width(w) and height(h)
\* overwrite min_size.x and min_size.y, so an explicit value is the result
\* unless a larger min_size is set after it.
C17_SizeAtLeastMinSize ==
    Watched =>
        LET w == Max2(IF last.plot.width # None THEN last.plot.width[1]
                      ELSE IF last.plot.height # None /\ last.plot.view_aspect # None
                           THEN TimesAspect(last.plot.height[1], last.plot.view_aspect[1])
                           ELSE last.env.available[1],
                      last.plot.min_size[1])
            h == Max2(IF last.plot.height # None THEN last.plot.height[1]
                      ELSE IF last.plot.view_aspect # None
                           THEN OverAspect(w, last.plot.view_aspect[1])
                           ELSE last.env.available[2],
                      last.plot.min_size[2])
        IN /\ AllocatedSize = <<w, h>>
           /\ last.rect.min = <<0, 0>>
           /\ (last.plot.width # None /\ last.plot.min_size[1] <= last.plot.width[1])
                 => AllocatedSize[1] = last.plot.width[1]
           /\ (last.plot.height # None /\ last.plot.min_size[2] <= last.plot.height[1])
                 => AllocatedSize[2] = last.plot.height[1]

\* width(200) followed by min_size((300, 300)): the plot is 300 wide.
C17_Witness ==
    /\ Watched
    /\ last.plot.width = Some(200) /\ last.plot.height = None
    /\ last.plot.min_size = <<300, 300>>
    /\ AllocatedSize[1] = 300

-----------------------------------------------------------------------------
(* C18 *)

\* The transform of the watched call as the zoom finds it: after
\* ScreenTransform::new and set_aspect.
BeforeGestures ==
    [frame |-> last.rect, bounds |-> last.aspected,
     x_centered |-> last.plot.center_x_axis, y_centered |-> last.plot.center_y_axis]

\* The watched call zooms by (0.5, 0.5) under a hovering pointer, and neither
\* drags nor scrolls.
ZoomsByHalf ==
    /\ Watched /\ last.plot.allow_zoom /\ HoverSeen
    /\ ZoomSeen = <<Half, Half>>
    /\ ~(last.plot.allow_drag /\ DragSeen) /\ ~ScrollSeen

\* The data value under the pointer before the zoom.
UnderPointer == value_from_position(BeforeGestures, last.env.hover_pos[1])

\* The pointer, the value under it and the halves of its distances to the
\* ends of the bounds are whole numbers of the model's grid.
ZoomOnGrid ==
    /\ position_from_value(BeforeGestures, UnderPointer) = last.env.hover_pos[1]
    /\ \A i \in 1..2 : /\ (last.aspected.min[i] - UnderPointer[i]) % 2 = 0
                       /\ (last.aspected.max[i] - UnderPointer[i]) % 2 = 0

\* C18: a zoom by (0.5, 0.5) under a hovering pointer p leaves the value that
\* was under p at the screen position p, halves the width and the height of
\* the bounds, and the zoomed bounds are persisted with auto_bounds false.
C18_ZoomAboutPointer ==
    ZoomsByHalf =>
        /\ last.written.bounds = last.transform.bounds
        /\ Persisted.bounds = last.transform.bounds
        /\ ~Persisted.auto_bounds
        /\ ZoomOnGrid =>
              /\ position_from_value(last.transform, UnderPointer) = last.env.hover_pos[1]
              /\ 2 * width(last.transform.bounds) = width(last.aspected)
              /\ 2 * height(last.transform.bounds) = height(last.aspected)

\* A zoom by a half of a plot whose pointer is off the centre of the frame.
C18_Witness ==
    /\ ZoomsByHalf /\ ZoomOnGrid
    /\ last.env.hover_pos[1][1] # last.env.hover_pos[1][2]
    /\ width(last.aspected) > 2 /\ height(last.aspected) > 2
    /\ 2 * width(Persisted.bounds) = width(last.aspected)
    /\ position_from_value(last.transform, UnderPointer) = last.env.hover_pos[1]
    /\ UnderPointer # <<0, 0>>

-----------------------------------------------------------------------------
(* C19 *)

\* The bounds are of the form [-r, r] on axis i.
SymmetricOn(b, i) == b.min[i] = -b.max[i]

\* C19: with center_x_axis (center_y_axis) set, the bounds the call renders
\* with and the bounds it persists are symmetric about zero on that axis,
\* whatever drags, zooms and scrolls the calls contain.
C19_CenteredAxisSymmetric ==
    Watched =>
        /\ last.plot.center_x_axis =>
              (SymmetricOn(last.transform.bounds, 1) /\ SymmetricOn(Persisted.bounds, 1))
        /\ last.plot.center_y_axis =>
              (SymmetricOn(last.transform.bounds, 2) /\ SymmetricOn(Persisted.bounds, 2))

-----------------------------------------------------------------------------
(* C20 *)

\* The watched call persists the bounds and the mode it had before the
\* gesture blocks: no gesture took effect.
NoGestureEffect ==
    /\ last.written.bounds = last.aspected
    /\ last.transform.bounds = last.aspected
    /\ last.written.auto_bounds = last.auto_in

\* The watched call's frame holds a zoom factor other than 1 or a scroll.
ZoomOrScrollSeen == ZoomDiffers \/ ScrollSeen

\* The watched call's zoom block takes effect.
ZoomBlockApplied == last.plot.allow_zoom /\ HoverSeen /\ ZoomOrScrollSeen

\* The watched call forbids dragging, allows zooming, and its frame holds a
\* scroll and no zoom under a hovering pointer.
ScrollWithoutDrag ==
    /\ Watched /\ ~last.plot.allow_drag /\ last.plot.allow_zoom
    /\ HoverSeen /\ ScrollSeen /\ ~ZoomDiffers

\* The bounds before the gestures, translated by the frame's scroll alone.
ScrolledOnly ==
    translate_bounds(BeforeGestures, <<-last.env.scroll_delta[1],
                                       -last.env.scroll_delta[2]>>).bounds

\* C20: a drag with allow_drag off, a zoom or a scroll with allow_zoom off,
\* and a zoom or a scroll without a hovering pointer change neither the
\* bounds nor the mode; with allow_drag off and allow_zoom on, a scroll
\* under a hovering pointer still translates the bounds and sets Manual
\* mode, a drag in the same frame adding nothing.
C20_DisabledGesturesIdle ==
    Watched =>
        /\ (~last.plot.allow_drag /\ DragSeen /\ ~ZoomBlockApplied) => NoGestureEffect
        /\ (~last.plot.allow_zoom /\ ZoomOrScrollSeen /\ ~(last.plot.allow_drag /\ DragSeen))
              => NoGestureEffect
        /\ (last.plot.allow_zoom /\ ~HoverSeen /\ ZoomOrScrollSeen
                /\ ~(last.plot.allow_drag /\ DragSeen))
              => NoGestureEffect
        /\ ScrollWithoutDrag =>
              /\ last.written.bounds = ScrolledOnly
              /\ last.written.bounds # last.aspected
              /\ ~last.written.auto_bounds

\* A call that started in Auto mode forbids dragging, and its frame holds a
\* drag and a scroll under a hovering pointer: the scroll alone moved the bounds.
C20_Witness ==
    /\ ScrollWithoutDrag /\ DragSeen /\ last.auto_in
    /\ last.written.bounds = ScrolledOnly
    /\ last.written.bounds # last.aspected

-----------------------------------------------------------------------------
(* C21 *)

\* Bounds another widget may have persisted: wide, narrow, off to one side,
\* and not valid.
OtherHistories ==
    {[min |-> <<-5 * Unit, -5 * Unit>>, max |-> <<5 * Unit, 5 * Unit>>],
     [min |-> <<0, 0>>, max |-> <<Unit, Unit>>],
     [min |-> <<7, 11>>, max |-> <<3 * Unit, 13>>],
     NOTHING}

\* The store of the watched call with the plot's memory replaced by one in
\* Auto-fit mode holding bounds b and the same hidden set.
StoreWithHistory(b) ==
    (last.plot.name :> [bounds |-> b, auto_bounds |-> TRUE,
                        hidden_curves |-> last.memory.hidden_curves])
    @@ last.before

\* The bounds the watched call's plot resolves, in the same frame, on a
\* widget whose persisted bounds are b.
ResolvedWithHistory(b) == UiResult(StoreWithHistory(b), last.plot, last.env).obs.resolved

\* The watched call starts in Auto-fit mode.
AutoCall == Watched /\ last.memory.auto_bounds

\* C21: in Auto-fit mode the bounds a show call resolves are those fitted to
\* the call's declared minimum, lines, visible curves and margin, and a
\* widget with other persisted bounds, also in Auto-fit mode and with the
\* same hidden set, resolves the same bounds from the same call.
C21_AutoFitForgetsHistory ==
    AutoCall =>
        /\ last.resolved = FitOfCall
        /\ \A b \in OtherHistories : ResolvedWithHistory(b) = last.resolved

\* A second call in Auto-fit mode on valid persisted bounds resolves bounds
\* other than the persisted ones, and the same as it would on every other history.
C21_Witness ==
    /\ AutoCall /\ ~last.first /\ is_valid(last.memory.bounds)
    /\ last.memory.bounds \notin OtherHistories
    /\ last.resolved # last.memory.bounds
    /\ last.visible # <<>>
    /\ \A b \in OtherHistories : ResolvedWithHistory(b) = last.resolved

-----------------------------------------------------------------------------
(* C22 *)

\* The transform after the drag block, from the one left by the aspect lock.
AfterDrag ==
    IF last.plot.allow_drag /\ DragSeen
    THEN translate_bounds(BeforeGestures, <<-last.env.drag_delta[1], -last.env.drag_delta[2]>>)
    ELSE BeforeGestures

\* The transform after the zoom, from the one left by the drag.
AfterZoom ==
    IF last.plot.allow_zoom /\ HoverSeen /\ ZoomDiffers
    THEN zoom(AfterDrag, ZoomSeen, last.env.hover_pos[1])
    ELSE AfterDrag

\* The transform after the scroll, from the one left by the zoom.
AfterScroll ==
    IF last.plot.allow_zoom /\ HoverSeen /\ ScrollSeen
    THEN translate_bounds(AfterZoom, <<-last.env.scroll_delta[1], -last.env.scroll_delta[2]>>)
    ELSE AfterZoom

\* The values of a function-based curve generated over the x range of bounds b.
GeneratedOver(b) == << <<b.min[1], b.min[1]>>, <<b.max[1], b.max[1]>> >>

\* C22: within one show call the resolved bounds are centered, the centered
\* bounds make the transform, the aspect lock follows, then the drag, the
\* zoom and the scroll in that order; function-based curves are generated
\* over the x range of the bounds left by the scroll, and those bounds are
\* the ones persisted.
C22_FrameOrdering ==
    Watched =>
        /\ last.handed = CenterAxes(last.resolved, last.plot.center_x_axis,
                                    last.plot.center_y_axis)
        /\ last.created = ScreenTransformNew(last.rect, last.handed, last.plot.center_x_axis,
                                             last.plot.center_y_axis).bounds
        /\ last.aspected = EnforceAspect([BeforeGestures EXCEPT !.bounds = last.created],
                                         last.plot.data_aspect).bounds
        /\ last.transform = AfterScroll
        /\ Len(last.curves) = Len(last.visible)
        /\ \A i \in DOMAIN last.curves :
              IF last.visible[i].generator
              THEN last.curves[i].values = GeneratedOver(AfterScroll.bounds)
              ELSE last.curves[i] = last.visible[i]
        /\ last.written.bounds = AfterScroll.bounds

\* A call on a centered x axis with the aspect locked applies a drag, a zoom
\* and a scroll; each stage changes the bounds, and the function-based curve
\* is generated over the x range left by the last of them.
C22_Witness ==
    /\ Watched /\ last.plot.center_x_axis /\ last.plot.data_aspect # None
    /\ last.plot.allow_drag /\ DragSeen
    /\ last.plot.allow_zoom /\ HoverSeen /\ ZoomDiffers /\ ScrollSeen
    /\ last.handed # last.resolved
    /\ last.aspected # last.created
    /\ AfterDrag.bounds # last.aspected
    /\ AfterZoom.bounds # AfterDrag.bounds
    /\ AfterScroll.bounds # AfterZoom.bounds
    /\ range_x(AfterScroll.bounds) # range_x(last.aspected)
    /\ \E i \in DOMAIN last.curves :
          /\ last.visible[i].generator
          /\ last.curves[i].values = GeneratedOver(AfterScroll.bounds)
    /\ last.written.bounds = AfterScroll.bounds

-----------------------------------------------------------------------------
(* C23 *)

\* The rearrangements of the sequence s.
Rearranged(s) ==
    {[i \in 1..Len(s) |-> s[f[i]]] :
        f \in {g \in [1..Len(s) -> 1..Len(s)] : \A i, j \in 1..Len(s) : i # j => g[i] # g[j]}}

\* The sequence s with x put in at position k.
InsertAt(s, k, x) == SubSeq(s, 1, k - 1) \o <<x>> \o SubSeq(s, k, Len(s))

\* The bounds the auto-fit of the watched call yields from the curves cs and
\* the lines hs and vs.
FitOf(cs, hs, vs) ==
    AutoFit(last.plot.min_auto_bounds, hs, vs, cs, last.plot.margin_fraction)

\* The watched call sets its bounds from the content.
FittingCall == Watched /\ last.fits

\* C23: the bounds auto-fit yields are the same for every order of the
\* curves, of the hlines and of the vlines, and a further curve whose own
\* bounds are not valid, wherever it stands in the list, leaves them as they are.
C23_FitIgnoresOrder ==
    FittingCall =>
        /\ \A cs \in Rearranged(last.visible) :
           \A hs \in Rearranged(last.plot.hlines) :
           \A vs \in Rearranged(last.plot.vlines) :
              FitOf(cs, hs, vs) = last.fitted
        /\ \A c \in {CurveF, CurveN} : \A k \in 1..(Len(last.visible) + 1) :
              FitOf(InsertAt(last.visible, k, c), last.plot.hlines, last.plot.vlines)
                 = last.fitted

\* A call fits three curves, one of them with bounds that are not valid, two
\* hlines and two vlines; the fit is valid and owes something to each of the
\* two valid curves.
C23_Witness ==
    /\ FittingCall /\ Len(last.visible) = 3
    /\ Len(last.plot.hlines) = 2 /\ Len(last.plot.vlines) = 2
    /\ \E i \in 1..3 : ~is_valid(last.visible[i].bounds)
    /\ is_valid(last.fitted)
    /\ \A i \in 1..3 :
          is_valid(last.visible[i].bounds) =>
             FitOf(SubSeq(last.visible, 1, i - 1) \o SubSeq(last.visible, i + 1, 3),
                   last.plot.hlines, last.plot.vlines) # last.fitted
    /\ \A cs \in Rearranged(last.visible) :
          FitOf(cs, last.plot.hlines, last.plot.vlines) = last.fitted

-----------------------------------------------------------------------------
(* C24 *)

\* The names of the legend entries left unchecked in the watched call.
LeftUnchecked == {n \in DOMAIN last.entries : ~last.entries[n].checked}

\* Every supplied curve of name n is among the curves left after the legend.
AllVisible(n) == Len(Named(last.visible, n)) = Len(Named(last.plot.curves, n))

\* C24: no persisted hidden set holds the empty name; after a show call with
\* the legend shown the persisted hidden set is exactly the set of names of
\* the entries left unchecked, a subset of the non-empty names supplied, so a
\* hidden name that is not supplied is dropped; a supplied name that is
\* not in the hidden set the call reads and is not clicked has all its
\* curves visible, and so have the unnamed curves.
C24_HiddenSetRebuilt ==
    /\ \A plot_id \in DOMAIN id_data : "" \notin id_data[plot_id].hidden_curves
    /\ (Watched /\ last.plot.show_legend) =>
          /\ Persisted.hidden_curves = LeftUnchecked
          /\ Persisted.hidden_curves \subseteq CurveNames \ {""}
          /\ \A n \in last.memory.hidden_curves \ CurveNames :
                n \notin Persisted.hidden_curves
          /\ \A n \in CurveNames \ ({""} \cup last.memory.hidden_curves) :
                n \notin last.env.legend_clicked => AllVisible(n)
          /\ AllVisible("")

\* The user unchecked a name and never re-checked it, a call showing the
\* legend went by without a curve of that name, and the watched call supplies
\* it again: it is not in the hidden set read, its curves are visible and it
\* is not in the hidden set persisted.
C24_Witness ==
    /\ Watched /\ last.plot.show_legend
    /\ \E n \in userHidden \ ToggledOff(last) :
          /\ n \notin last.memory.hidden_curves
          /\ Named(last.plot.curves, n) # <<>>
          /\ AllVisible(n)
          /\ n \notin Persisted.hidden_curves

-----------------------------------------------------------------------------
(* C25 *)

\* The watched call does not show the legend.
LegendOff == Watched /\ ~last.plot.show_legend

\* The bounds fitted to every curve the caller supplied to the watched call.
FitOfSupplied ==
    NotEmpty(AutoFit(last.plot.min_auto_bounds, last.plot.hlines, last.plot.vlines,
                     last.plot.curves, last.plot.margin_fraction))

\* The hover query of the watched call over every curve the caller supplied.
HoverOfSupplied ==
    Hover(last.transform, last.show_x, last.show_y,
          GenerateAll(last.plot.curves, range_x(last.transform.bounds)),
          last.env.hover_pos[1])

\* The curves left after the legend in the call that follows the watched
\* one, for the same plot with the legend shown and a frame without input.
VisibleNextWithLegend ==
    UiResult(id_data, [last.plot EXCEPT !.show_legend = TRUE], QuietEnv).obs.visible

\* C25: a show call without the legend persists the hidden set it read and
\* filters nothing: every supplied curve is rendered, the fit is that of all
\* supplied curves, the hover query runs over all of them; in the next call
\* with the legend shown the curves of the names in the set are hidden again.
C25_LegendOffFiltersNothing ==
    LegendOff =>
        /\ Persisted.hidden_curves = last.memory.hidden_curves
        /\ last.visible = last.plot.curves
        /\ Len(last.curves) = Len(last.plot.curves)
        /\ \A i \in DOMAIN last.curves : last.curves[i].name = last.plot.curves[i].name
        /\ last.fits => last.resolved = FitOfSupplied
        /\ HoverSeen => last.hover = HoverOfSupplied
        /\ \A i \in DOMAIN VisibleNextWithLegend :
              VisibleNextWithLegend[i].name \notin last.memory.hidden_curves

\* A call without the legend supplies a curve whose name is in the hidden
\* set: the curve is rendered, widens the fit and is the one the hover query
\* picks; the next call with the legend shown hides it.
C25_Witness ==
    /\ LegendOff /\ HoverSeen /\ last.fits
    /\ \E n \in last.memory.hidden_curves :
          /\ Named(last.curves, n) # <<>>
          /\ last.resolved #
                NotEmpty(AutoFit(last.plot.min_auto_bounds, last.plot.hlines,
                                 last.plot.vlines,
                                 SelectSeq(last.plot.curves, LAMBDA curve : curve.name # n),
                                 last.plot.margin_fraction))
          /\ last.hover.closest # None
          /\ last.curves[last.hover.closest[1].curve].name = n
          /\ Named(VisibleNextWithLegend, n) = <<>>
          /\ n \in Persisted.hidden_curves

-----------------------------------------------------------------------------
(* C26 *)

\* The watched call sees a primary double-click and applies a drag, a zoom
\* or a scroll.
DoubleClickWithGesture == Watched /\ last.env.double_clicked /\ GestureApplied

\* C26: the auto_bounds a call persists is true iff it was true in the
\* memory read or the frame holds a double-click, and no drag, zoom or scroll
\* was applied; a call with a double-click and an applied gesture fits the
\* bounds to the content, pans and zooms the fitted bounds, and persists
\* Manual mode.
C26_GestureWinsOverDoubleClick ==
    Watched =>
        /\ Persisted.auto_bounds =
              ((last.memory.auto_bounds \/ last.env.double_clicked) /\ ~GestureApplied)
        /\ DoubleClickWithGesture =>
              /\ last.fits /\ last.resolved = FitOfCall
              /\ last.aspected =
                    EnforceAspect(
                       ScreenTransformNew(last.rect,
                                          CenterAxes(FitOfCall, last.plot.center_x_axis,
                                                     last.plot.center_y_axis),
                                          last.plot.center_x_axis, last.plot.center_y_axis),
                       last.plot.data_aspect).bounds
              /\ Persisted.bounds = AfterScroll.bounds
              /\ ~Persisted.auto_bounds

\* A call in Manual mode sees a double-click and a gesture: the bounds fitted
\* are not the persisted ones, the gesture moves them, and Manual mode stays.
C26_Witness ==
    /\ DoubleClickWithGesture /\ ~last.first
    /\ ~last.memory.auto_bounds /\ is_valid(last.memory.bounds)
    /\ last.resolved = FitOfCall /\ last.resolved # last.memory.bounds
    /\ Persisted.bounds = AfterScroll.bounds
    /\ Persisted.bounds # last.aspected
    /\ ~Persisted.auto_bounds

=============================================================================
